---- MODULE Spec2Model ----
(***************************************************************************)
(* gographql: translation of Go struct types to graphql types.             *)
(* Model of typeMapper (src/gographql.go): the registry graphqlTypes, the  *)
(* in-progress set parentTypes, the nesting level, the recursive           *)
(* goToGraphqlType / goFieldToGraphqlType traversal as an explicit call    *)
(* stack, stub insertion, and the deferred patch pass.                     *)
(*                                                                         *)
(* Names are sequences of tokens, so that the regular expressions of the   *)
(* patch pass, which look for the text "Stub", "[", "]" and "!", act on    *)
(* them as they act on the Go strings: "PayStub" is <<"Pay","Stub">>,      *)
(* "Node_Input" is <<"Node","_Input">>.  No token contains the text of     *)
(* another marker token.                                                   *)
(***************************************************************************)
EXTENDS Integers, Sequences, FiniteSets, TLC

\* ------------------------------------------------------------------ bounds
\* Root compile calls made in one behaviour.
MaxCalls == 2
\* Calls of SetDescription, SetTypeReplacer and SetFieldResolverFinder made in
\* one behaviour.
MaxSettings == 2

\* Calls of SetDescription made in one behaviour of two goroutines.
MaxConcSettings == 1
\* Call-stack depth at which the model stops descending (never reached by
\* the code as written: the in-progress set cuts every cycle first).
MaxDepth == 6
\* Root compile calls made in one behaviour of LiveSpec.
MaxLiveCalls == 1
\* Applications of a pure function made in one behaviour of FnSpec.
MaxApplied == 1

\* ------------------------------------------------------------- Go types
\* A Go type: (ptr? *)(slice? [])(elemPtr? *) base, base given by its
\* reflect kind, its package and its name.  elemPtr is used under slice only.
GoT(ptr, slice, elemPtr, kind, pkg, tname) ==
  [ptr |-> ptr, slice |-> slice, elemPtr |-> elemPtr,
   kind |-> kind, pkg |-> pkg, tname |-> tname]

TStruct(n)    == GoT(FALSE, FALSE, FALSE, "Struct", "main", n)
TPrim(k)      == GoT(FALSE, FALSE, FALSE, k, "", <<>>)
TIface        == GoT(FALSE, FALSE, FALSE, "Interface", "", <<>>)
\* type Shaper interface { Shape() Child }
TShaper       == GoT(FALSE, FALSE, FALSE, "Interface", "main", <<"Shaper">>)
TPtr(t)       == [t EXCEPT !.ptr = TRUE]
TSlice(t)     == [t EXCEPT !.slice = TRUE]
TimeType      == GoT(FALSE, FALSE, FALSE, "Struct", "time", <<"Time">>)
ObjectIDType  == GoT(FALSE, FALSE, FALSE, "Array", "primitive", <<"ObjectID">>)
\* The nil interface value and "no type" (a nil *reflect.Type).
NilArg        == GoT(FALSE, FALSE, FALSE, "Nil", "", <<>>)
NoGoType      == GoT(FALSE, FALSE, FALSE, "None", "", <<>>)

\* reflect.Type.Kind()
Kind(t) ==
  IF t.ptr THEN "Ptr"
  ELSE IF t.slice THEN "Slice"
  ELSE IF t.elemPtr THEN "Ptr"
  ELSE t.kind

\* reflect.Type.Elem() of a pointer or a slice
Elem(t) ==
  IF t.ptr THEN [t EXCEPT !.ptr = FALSE]
  ELSE IF t.slice THEN [t EXCEPT !.slice = FALSE]
  ELSE [t EXCEPT !.elemPtr = FALSE]

\* reflect.Type.NumMethod() and Method(0).Type.Out(0) of an interface type
NumMethod(t) == IF t = TShaper THEN 1 ELSE 0
MethodOut(t) == GoT(FALSE, FALSE, FALSE, "Struct", "main", <<"Child">>)

\* reflect.Type.Name(): empty for unnamed types (pointers, slices, literals)
GoName(t) == IF Kind(t) \in {"Ptr", "Slice"} THEN <<>> ELSE t.tname

\* A struct field: name, type, and the tags required / replaceTypeWith /
\* description ("" and <<>> when the tag is absent).
Fld(name, type, required, replace) ==
  [name |-> name, type |-> type, required |-> required, replace |-> replace,
   description |-> "about " \o name]

\* A field declared without tags.
Untagged(name, type) == [Fld(name, type, "", <<>>) EXCEPT !.description = ""]

\* ------------------------------------------------- the struct declarations
\* The Go struct types the callers of this development compile.
\*   type Node    struct { Self *Node; Name string }
\*   type A       struct { ToB B }
\*   type B       struct { ToA *A `required:"true"` }
\*   type Empty   struct {}
\*   type Parent  struct { Children []Child; Nothing Empty }
\*   type Child   struct { Value int }
\*   type Child_Input struct {}
\*   type Tree    struct { Kids []Tree; All *[]Tree `required:"true"` }
\*   type PayStub struct { Amount int }
\*   type Emp     struct { Pay PayStub }
\*   type Sub     struct { F Child `replaceTypeWith:"Other"`
\*                         L []Child `replaceTypeWith:"Other"`
\*                         I interface{} `replaceTypeWith:"Other"`
\*                         P string `replaceTypeWith:"Other"` }
\*   type Other   struct { V string }
\*   type Req     struct { P *int `required:"true"`; Q int `required:"true"`
\*                         R *int `required:"false"`; S int }
\*   type Hollow  struct { Nothing Empty }
\*   type Stamp   struct { At time.Time; PAt *time.Time
\*                         Id primitive.ObjectID
\*                         Times []time.Time; Ids []primitive.ObjectID
\*                         AtSub time.Time `replaceTypeWith:"Other"`
\*                         IdSub primitive.ObjectID `replaceTypeWith:"Other"` }
\* and the structs of the package time that a compile of time.Time reaches
\* (reflection gives their unexported fields too):
\*   type Time      struct { wall uint64; ext int64; loc *Location }
\*   type Location  struct { name string; zone []zone; tx []zoneTrans
\*                           extend string; cacheStart int64; cacheEnd int64
\*                           cacheZone *zone }
\*   type zone      struct { name string; offset int; isDST bool }
\*   type zoneTrans struct { when int64; index uint8; isstd, isutc bool }
TimeStructs == { <<"Time">>, <<"Location">>, <<"zone">>, <<"zoneTrans">> }

TTime(n) == GoT(FALSE, FALSE, FALSE, "Struct", "time", n)

StructNames ==
  { <<"Node">>, <<"A">>, <<"B">>, <<"Empty">>, <<"Parent">>, <<"Child">>,
    <<"Child", "_Input">>, <<"Tree">>, <<"Pay", "Stub">>, <<"Emp">>,
    <<"Sub">>, <<"Other">>, <<"Req">>, <<"Hollow">>, <<"Stamp">> } \cup TimeStructs

\* structure.NumField() / structure.Field(i): the fields in declaration order.
StructFields(n) ==
  CASE n = <<"Node">> ->
         << Fld("Self", TPtr(TStruct(<<"Node">>)), "", <<>>),
            Fld("Name", TPrim("String"), "", <<>>) >>
    [] n = <<"A">> ->
         << Fld("ToB", TStruct(<<"B">>), "", <<>>) >>
    [] n = <<"B">> ->
         << Fld("ToA", TPtr(TStruct(<<"A">>)), "true", <<>>) >>
    [] n = <<"Parent">> ->
         << Fld("Children", TSlice(TStruct(<<"Child">>)), "", <<>>),
            Fld("Nothing", TStruct(<<"Empty">>), "", <<>>) >>
    [] n = <<"Child">> ->
         << Fld("Value", TPrim("Int"), "", <<>>) >>
    [] n = <<"Tree">> ->
         << Fld("Kids", TSlice(TStruct(<<"Tree">>)), "", <<>>),
            Fld("All", TPtr(TSlice(TStruct(<<"Tree">>))), "true", <<>>) >>
    [] n = <<"Pay", "Stub">> ->
         << Fld("Amount", TPrim("Int"), "", <<>>) >>
    [] n = <<"Emp">> ->
         << Fld("Pay", TStruct(<<"Pay", "Stub">>), "", <<>>) >>
    [] n = <<"Sub">> ->
         << Fld("F", TStruct(<<"Child">>), "", <<"Other">>),
            Fld("L", TSlice(TStruct(<<"Child">>)), "", <<"Other">>),
            Fld("I", TIface, "", <<"Other">>),
            Fld("P", TPrim("String"), "", <<"Other">>) >>
    [] n = <<"Other">> ->
         << Fld("V", TPrim("String"), "", <<>>) >>
    [] n = <<"Req">> ->
         << Fld("P", TPtr(TPrim("Int")), "true", <<>>),
            Fld("Q", TPrim("Int"), "true", <<>>),
            Fld("R", TPtr(TPrim("Int")), "false", <<>>),
            Fld("S", TPrim("Int"), "", <<>>) >>
    [] n = <<"Hollow">> ->
         << Fld("Nothing", TStruct(<<"Empty">>), "", <<>>) >>
    [] n = <<"Stamp">> ->
         << Fld("At", TimeType, "", <<>>),
            Fld("PAt", TPtr(TimeType), "", <<>>),
            Fld("Id", ObjectIDType, "", <<>>),
            Fld("Times", TSlice(TimeType), "", <<>>),
            Fld("Ids", TSlice(ObjectIDType), "", <<>>),
            Fld("AtSub", TimeType, "", <<"Other">>),
            Fld("IdSub", ObjectIDType, "", <<"Other">>) >>
    [] n = <<"Time">> ->
         << Untagged("wall", TPrim("Uint64")),
            Untagged("ext", TPrim("Int64")),
            Untagged("loc", TPtr(TTime(<<"Location">>))) >>
    [] n = <<"Location">> ->
         << Untagged("name", TPrim("String")),
            Untagged("zone", TSlice(TTime(<<"zone">>))),
            Untagged("tx", TSlice(TTime(<<"zoneTrans">>))),
            Untagged("extend", TPrim("String")),
            Untagged("cacheStart", TPrim("Int64")),
            Untagged("cacheEnd", TPrim("Int64")),
            Untagged("cacheZone", TPtr(TTime(<<"zone">>))) >>
    [] n = <<"zone">> ->
         << Untagged("name", TPrim("String")),
            Untagged("offset", TPrim("Int")),
            Untagged("isDST", TPrim("Bool")) >>
    [] n = <<"zoneTrans">> ->
         << Untagged("when", TPrim("Int64")),
            Untagged("index", TPrim("Uint8")),
            Untagged("isstd", TPrim("Bool")),
            Untagged("isutc", TPrim("Bool")) >>
    [] OTHER -> << >>

\* The arguments the callers pass to the root compile functions: every
\* struct they declare by value, one by pointer, nil, a non-struct value and
\* a struct literal without a name.
RootArgs ==
  { TStruct(n) : n \in StructNames \ TimeStructs }
    \cup { TPtr(TStruct(<<"Node">>)), NilArg, TPrim("Int"), TStruct(<<>>) }

\* The values of tm.typeReplacer: the replacer of NewTypeMapper
\* (defaultTypeReplacer, lines 237-243, which knows no name) and the replacer
\* the callers pass to SetTypeReplacer, which knows the struct Other by name.
TypeReplacers == {"default", "custom"}

\* tm.typeReplacer.GetType(typeName)
GetType(replacer, typeName) ==
  IF replacer = "custom" /\ typeName = <<"Other">> THEN TStruct(<<"Other">>) ELSE NoGoType

\* ---------------------------------------------------------- graphql types
\* A graphql.Type value: a scalar or a pointer to an Object / InputObject of
\* the heap (k, n, id), under the wrappers w, outermost first: "L" is
\* graphql.NewList, "N" is graphql.NewNonNull.
Scalar(name)  == [w |-> <<>>, k |-> "scalar", n |-> name, id |-> 0]
ObjT(id)      == [w |-> <<>>, k |-> "obj", n |-> "", id |-> id]
NoType        == [w |-> <<>>, k |-> "nil", n |-> "", id |-> 0]
NewList(t)    == [t EXCEPT !.w = <<"L">> \o @]
NewNonNull(t) == [t EXCEPT !.w = <<"N">> \o @]

\* The result of goToGraphqlType / goFieldToGraphqlType: (type, err).
Ok(t)   == [type |-> t, err |-> FALSE]
Failed  == [type |-> NoType, err |-> TRUE]

\* Name() of the Object, InputObject or Scalar under the wrappers.
BaseName(t, h) == IF t.k = "obj" THEN h[t.id].name ELSE <<t.n>>

RECURSIVE WrapString(_, _)
WrapString(w, base) ==
  IF w = <<>> THEN base
  ELSE IF Head(w) = "L" THEN <<"[">> \o WrapString(Tail(w), base) \o <<"]">>
  ELSE WrapString(Tail(w), base) \o <<"!">>

\* fmt.Sprintf("%v", reflect.ValueOf(Type)): the type's String(), which
\* writes a List as [T] and a NonNull as T!.
TypeString(t, h) == WrapString(t.w, BaseName(t, h))

\* Type.Name(): the name of an Object or Scalar; a List gives the text of
\* its element type without brackets, a NonNull the text of its element
\* type followed by "!".
TypeName(t, h) ==
  IF t.w = <<>> THEN BaseName(t, h)
  ELSE IF Head(t.w) = "L" THEN WrapString(Tail(t.w), BaseName(t, h))
  ELSE WrapString(Tail(t.w), BaseName(t, h)) \o <<"!">>

\* ------------------------------------------------- the regular expressions
\* reStub = `(.*)Stub`, FindStringSubmatch: the group is greedy, so it is
\* the text before the last "Stub".
LastStub(s) ==
  LET at == {i \in 1..Len(s) : s[i] = "Stub"}
  IN  IF at = {} THEN 0 ELSE CHOOSE i \in at : \A j \in at : j <= i

reStub(s) ==
  IF LastStub(s) = 0 THEN [ok |-> FALSE, word |-> <<>>]
  ELSE [ok |-> TRUE, word |-> SubSeq(s, 1, LastStub(s) - 1)]

\* reList = `\[(.*)Stub\]`: a "[" and, after it, "Stub" directly before "]".
reList(s) ==
  \E i \in 1..Len(s) : \E j \in 1..Len(s) :
     /\ i < j /\ j < Len(s)
     /\ s[i] = "[" /\ s[j] = "Stub" /\ s[j + 1] = "]"

\* RENonNull = `(.*)Stub\!`: "Stub" directly before "!".
RENonNull(s) ==
  \E j \in 1..Len(s) : j < Len(s) /\ s[j] = "Stub" /\ s[j + 1] = "!"

\* ------------------------------------------------------------ scalar table
kindToGraphqlScalar_Uint64AsInt(kind) ==
  CASE kind = "Bool" -> Scalar("Boolean")
    [] kind \in {"Int", "Int8", "Int16", "Int32"} -> Scalar("Int")
    [] kind = "Int64" -> Scalar("Int64")
    [] kind \in {"Uint", "Uint8", "Uint16", "Uint32", "Uint64"} -> Scalar("Int")
    [] kind \in {"Float32", "Float64"} -> Scalar("Float")
    [] kind = "String" -> Scalar("String")
    [] OTHER -> Scalar("String")

kindToGraphqlScalar(kind) ==
  CASE kind = "Bool" -> Scalar("Boolean")
    [] kind \in {"Int", "Int8", "Int16", "Int32"} -> Scalar("Int")
    [] kind = "Int64" -> Scalar("Int64")
    [] kind \in {"Uint", "Uint8", "Uint16", "Uint32"} -> Scalar("Int")
    [] kind = "Uint64" -> Scalar("Uint64")
    [] kind \in {"Float32", "Float64"} -> Scalar("Float")
    [] kind = "String" -> Scalar("String")
    [] OTHER -> Scalar("String")

\* The result of classifying a field: either the field's type is known at
\* once (call = FALSE), or it is what goToGraphqlType gives for arg, wrapped
\* in a List when list is TRUE (call = TRUE).
Immediate(t)     == [call |-> FALSE, type |-> t, arg |-> NoGoType, list |-> FALSE]
Nested(a, list)  == [call |-> TRUE, type |-> NoType, arg |-> a, list |-> list]

\* faceToAny (lines 616-628): the branch that compiles the return type of
\* the first method is guarded by true == false; otherwise Any.
faceToAny_MethodBranchEnabled(t) ==
  LET methodCount == NumMethod(t)
  IN  IF methodCount # 0
      THEN Nested(MethodOut(t), FALSE)
      ELSE Immediate(Scalar("Any"))

faceToAny(t) ==
  LET methodCount == NumMethod(t)
  IN  IF (TRUE = FALSE) /\ methodCount # 0
      THEN Nested(MethodOut(t), FALSE)
      ELSE Immediate(Scalar("Any"))

\* The values of tm.fieldResolverFinder: the finder of NewTypeMapper
\* (defaultFieldResolverFinder, lines 214-219, which gives no resolver for any
\* name) and the finder the callers pass to SetFieldResolverFinder, written
\* after the example of the README: the substitution name is looked at
\* first, then the name of the declared type.
FieldResolverFinders == {"default", "custom"}

\* tm.fieldResolverFinder.GetResolver(fieldTypeName, substituteTypeName)
GetResolver(finder, fieldTypeName, substituteTypeName) ==
  IF finder = "default" THEN "nil"
  ELSE IF substituteTypeName = <<"Other">> THEN "resolveOther"
  ELSE IF fieldTypeName \in {<<"Child">>, <<"Node">>} THEN "resolveRecord"
  ELSE "nil"

\* ------------------------------------------------------------------- state
VARIABLES
  graphqlTypes,  \* tm.graphqlTypes: registry key -> graphql.Type
  parentTypes,   \* tm.parentTypes: the keys of the structs being compiled
  level,         \* tm.level of the type mapper the root calls run on
  targetType,    \* tm.targetType: "out" (graphqlOutput) or "in" (graphqlInput)
  heap,          \* the graphql.Object / graphql.InputObject values allocated
  stack,         \* the active goToGraphqlType calls, the root call first
  calls,         \* root compile calls started
  results,       \* what each finished root call returned, in order
  passes,        \* patch passes run since the last root call started
  parked,        \* the call stack of the other goroutine (ConcSpec only)
  applied,       \* the applications of the pure functions (FnSpec only)
  typeReplacer,        \* tm.typeReplacer
  fieldResolverFinder, \* tm.fieldResolverFinder
  settings,            \* calls of SetDescription and of the two hook setters made
  fault                \* the panic or fatal error that has ended the program ("": none)

hooks == <<typeReplacer, fieldResolverFinder>>

vars == <<graphqlTypes, parentTypes, level, targetType, heap, stack, calls, results,
          passes, parked, applied, hooks, settings, fault>>

Modes == {"out", "in"}

\* Lines 499-502: the name of a field's type as the finder gets it: the text
\* of structField.Type.String() after its first ".", empty for a type
\* written without a package.
fieldType(t) == IF t.pkg = "" THEN <<>> ELSE t.tname

NewField_DeclaredTypeOnly(finder, f, t, mode) ==
  IF mode = "in"
  THEN [Name |-> f.name, Type |-> t, DefaultValue |-> "nil",
        Description |-> f.description]
  ELSE [Name |-> f.name, Type |-> t, Description |-> f.description,
        Resolve |-> GetResolver(finder, fieldType(f.type), << >>),
        DeprecationReason |-> ""]

\* Lines 507-523: the field the loop stores.  An output field carries the
\* resolver of the finder, which is asked here; an input field carries a
\* default value and no resolver.
NewField(finder, f, t, mode) ==
  IF mode = "in"
  THEN [Name |-> f.name, Type |-> t, DefaultValue |-> "nil",
        Description |-> f.description]
  ELSE [Name |-> f.name, Type |-> t, Description |-> f.description,
        Resolve |-> GetResolver(finder, fieldType(f.type), f.replace),
        DeprecationReason |-> ""]


\* ------------------------------------------------- graphql object library
\* An Object / InputObject keeps the field map it was configured with
\* (config, the map the compiler filled) and a field-definition map built
\* from it on the first Fields() call (fields, init).  AddFieldConfig writes
\* config and makes the next Fields() call build a new map.
EmptyMap == << >>
Put(m, k, v) == [x \in DOMAIN m \cup {k} |-> IF x = k THEN v ELSE m[x]]
Remove(m, k) == [x \in DOMAIN m \ {k} |-> m[x]]

\* graphql.NewObject / graphql.NewInputObject.  stub (the object was made by
\* the cycle check), made (the field map it was made with), asked (the
\* calls of the finder made while its fields were compiled), replacer and
\* finder (the hooks the mapper had then) are history: no code reads them.
\* gen names the field-definition map the object has (see FieldsCall).
NewObject(name, mode, fields, isStub) ==
  [name |-> name, kind |-> IF mode = "in" THEN "InputObject" ELSE "Object",
   config |-> fields, fields |-> EmptyMap, init |-> FALSE, gen |-> 0,
   stub |-> isStub, made |-> fields, asked |-> 0,
   replacer |-> typeReplacer, finder |-> fieldResolverFinder]

\* obj.Fields(): the field-definition map, built from config when needed.
Fields(o) == IF o.init THEN o.fields ELSE o.config

\* The object after a Fields() call.
Touch(o) == IF o.init THEN o ELSE [o EXCEPT !.fields = o.config, !.init = TRUE]

\* delete(obj.Fields(), fieldKey)
DeleteField(o, k) == [Touch(o) EXCEPT !.fields = Remove(@, k)]

\* obj.AddFieldConfig(fieldKey, field)
AddFieldConfig(o, k, f) == [o EXCEPT !.config = Put(@, k, f), !.init = FALSE]

\* ------------------------------------------------------------------ Init
Init ==
  /\ graphqlTypes = EmptyMap
  /\ parentTypes = {}
  /\ level = 0
  /\ targetType = "out"
  /\ heap = << >>
  /\ stack = << >>
  /\ calls = 0
  /\ results = << >>
  /\ passes = 0
  /\ parked = << >>
  /\ applied = << >>
  /\ typeReplacer = "default"
  /\ fieldResolverFinder = "default"
  /\ settings = 0
  /\ fault = ""

\* ------------------------------------------- goToGraphqlType, the prologue
\* Lines 360-412: the argument checks, the registry key, the memo lookup and
\* the cycle check.  kind is "err", "hit" (already defined), "stub" (the key
\* is in parentTypes) or "enter".
EnterOutcome_NoMemo(arg, mode, gt, pt) ==
  LET structure == IF Kind(arg) = "Ptr" THEN Elem(arg) ELSE arg
      name == GoName(structure)
      key == IF mode = "in" THEN name \o <<"_Input">> ELSE name
      out(k) == [kind |-> k, key |-> key, sname |-> name]
  IN  IF arg = NilArg THEN out("err")
      ELSE IF Kind(structure) # "Struct" THEN out("err")
      ELSE IF name = <<>> THEN out("err")
      ELSE IF key \in pt THEN out("stub")
      ELSE out("enter")

EnterOutcome_NoCycleCheck(arg, mode, gt, pt) ==
  LET structure == IF Kind(arg) = "Ptr" THEN Elem(arg) ELSE arg
      name == GoName(structure)
      key == IF mode = "in" THEN name \o <<"_Input">> ELSE name
      out(k) == [kind |-> k, key |-> key, sname |-> name]
  IN  IF arg = NilArg THEN out("err")
      ELSE IF Kind(structure) # "Struct" THEN out("err")
      ELSE IF name = <<>> THEN out("err")
      ELSE IF key \in DOMAIN gt THEN out("hit")
      ELSE out("enter")

EnterOutcome_CycleCheckFirst(arg, mode, gt, pt) ==
  LET structure == IF Kind(arg) = "Ptr" THEN Elem(arg) ELSE arg
      name == GoName(structure)
      key == IF mode = "in" THEN name \o <<"_Input">> ELSE name
      out(k) == [kind |-> k, key |-> key, sname |-> name]
  IN  IF arg = NilArg THEN out("err")
      ELSE IF Kind(structure) # "Struct" THEN out("err")
      ELSE IF name = <<>> THEN out("err")
      ELSE IF key \in pt THEN out("stub")
      ELSE IF key \in DOMAIN gt THEN out("hit")
      ELSE out("enter")

EnterOutcome(arg, mode, gt, pt) ==
  LET structure == IF Kind(arg) = "Ptr" THEN Elem(arg) ELSE arg
      name == GoName(structure)
      key == IF mode = "in" THEN name \o <<"_Input">> ELSE name
      out(k) == [kind |-> k, key |-> key, sname |-> name]
  IN  IF arg = NilArg THEN out("err")
      ELSE IF Kind(structure) # "Struct" THEN out("err")
      ELSE IF name = <<>> THEN out("err")
      ELSE IF key \in DOMAIN gt THEN out("hit")
      ELSE IF key \in pt THEN out("stub")
      ELSE out("enter")

\* Lines 399-410: the stub object, named key+"Stub", with its one field.
StubObject(key, mode) ==
  NewObject(key \o <<"Stub">>, mode,
            Put(EmptyMap, "aField",
                IF mode = "in"
                THEN [Name |-> "aField", Type |-> Scalar("Int"),
                      DefaultValue |-> "nil", Description |-> ""]
                ELSE [Name |-> "aField", Type |-> Scalar("Int"), Description |-> "",
                      Resolve |-> "nil", DeprecationReason |-> ""]),
            TRUE)

\* ------------------------------------------------- goFieldToGraphqlType
Classify_NoSpecialTypes(replacer, f) ==
  LET structFieldType == IF Kind(f.type) = "Ptr" THEN Elem(f.type) ELSE f.type
      substitutedType == GetType(replacer, f.replace)
      has == substitutedType # NoGoType
      t == IF has THEN substitutedType ELSE structFieldType
  IN  CASE Kind(structFieldType) = "Struct" ->
             Nested(IF has THEN substitutedType ELSE structFieldType, FALSE)
        [] Kind(structFieldType) = "Slice" ->
             LET e == IF has THEN substitutedType ELSE Elem(structFieldType)
             IN  CASE Kind(e) = "Struct" -> Nested(e, TRUE)
                   [] Kind(e) = "Interface" ->
                        IF faceToAny(e).call THEN Nested(faceToAny(e).arg, TRUE)
                        ELSE Immediate(NewList(faceToAny(e).type))
                   [] OTHER -> Immediate(NewList(kindToGraphqlScalar(Kind(e))))
        [] Kind(structFieldType) = "Interface" ->
             faceToAny(IF has THEN substitutedType ELSE structFieldType)
        [] OTHER ->
             Immediate(kindToGraphqlScalar(
                         Kind(IF has THEN substitutedType ELSE structFieldType)))

Classify_SpecialBeforeSubstitution(replacer, f) ==
  LET structFieldType == IF Kind(f.type) = "Ptr" THEN Elem(f.type) ELSE f.type
      substitutedType == GetType(replacer, f.replace)
      has == substitutedType # NoGoType
      t == IF has THEN substitutedType ELSE structFieldType
  IN  IF structFieldType = ObjectIDType THEN Immediate(Scalar("ObjectID"))
      ELSE IF structFieldType = TimeType THEN Immediate(Scalar("DateTime"))
      ELSE CASE Kind(structFieldType) = "Struct" ->
                  Nested(IF has THEN substitutedType ELSE structFieldType, FALSE)
             [] Kind(structFieldType) = "Slice" ->
                  LET e == IF has THEN substitutedType ELSE Elem(structFieldType)
                  IN  CASE Kind(e) = "Struct" -> Nested(e, TRUE)
                        [] Kind(e) = "Interface" ->
                             IF faceToAny(e).call THEN Nested(faceToAny(e).arg, TRUE)
                             ELSE Immediate(NewList(faceToAny(e).type))
                        [] OTHER -> Immediate(NewList(kindToGraphqlScalar(Kind(e))))
             [] Kind(structFieldType) = "Interface" ->
                  faceToAny(IF has THEN substitutedType ELSE structFieldType)
             [] OTHER ->
                  Immediate(kindToGraphqlScalar(
                              Kind(IF has THEN substitutedType ELSE structFieldType)))

\* Lines 541-614.
Classify(replacer, f) ==
  LET structFieldType == IF Kind(f.type) = "Ptr" THEN Elem(f.type) ELSE f.type
      substitutedType == GetType(replacer, f.replace)
      has == substitutedType # NoGoType
      t == IF has THEN substitutedType ELSE structFieldType
  IN  IF t = ObjectIDType THEN Immediate(Scalar("ObjectID"))
      ELSE IF t = TimeType THEN Immediate(Scalar("DateTime"))
      ELSE CASE Kind(structFieldType) = "Struct" ->
                  Nested(IF has THEN substitutedType ELSE structFieldType, FALSE)
             [] Kind(structFieldType) = "Slice" ->
                  LET e == IF has THEN substitutedType ELSE Elem(structFieldType)
                  IN  CASE Kind(e) = "Struct" -> Nested(e, TRUE)
                        [] Kind(e) = "Interface" ->
                             IF faceToAny(e).call THEN Nested(faceToAny(e).arg, TRUE)
                             ELSE Immediate(NewList(faceToAny(e).type))
                        [] OTHER -> Immediate(NewList(kindToGraphqlScalar(Kind(e))))
             [] Kind(structFieldType) = "Interface" ->
                  faceToAny(IF has THEN substitutedType ELSE structFieldType)
             [] OTHER ->
                  Immediate(kindToGraphqlScalar(
                              Kind(IF has THEN substitutedType ELSE structFieldType)))

\* The declarations and their classification, by struct name and field
\* number, and by the replacer in force.
FieldTable == [n \in StructNames |-> StructFields(n)]
ClassTable ==
  [r \in TypeReplacers |->
     [n \in StructNames |-> [i \in DOMAIN StructFields(n) |-> Classify(r, StructFields(n)[i])]]]

\* Lines 579-585 and 493-525: what the field loop does with the result of
\* classifying field fr.i: a failed field is skipped, a pointer field tagged
\* required:"true" is wrapped in NonNull, and the field is stored under its
\* name.  Gives the frame with the loop advanced; asked counts the calls of
\* the finder (history).
Deliver_FailureEndsRecord(fr, res) ==
  LET f == FieldTable[fr.sname][fr.i]
      c == ClassTable[typeReplacer][fr.sname][fr.i]
      t0 == IF c.call /\ c.list THEN NewList(res.type) ELSE res.type
      t1 == IF f.required = "true" /\ Kind(f.type) = "Ptr" THEN NewNonNull(t0) ELSE t0
  IN  IF res.err THEN [fr EXCEPT !.i = Len(FieldTable[fr.sname]) + 1, !.fields = EmptyMap]
      ELSE [fr EXCEPT !.i = @ + 1,
                      !.asked = IF fr.mode = "in" THEN @ ELSE @ + 1,
                      !.fields = Put(@, f.name, NewField(fieldResolverFinder, f, t1, fr.mode))]

Deliver_RequiredAnyKind(fr, res) ==
  LET f == FieldTable[fr.sname][fr.i]
      c == ClassTable[typeReplacer][fr.sname][fr.i]
      t0 == IF c.call /\ c.list THEN NewList(res.type) ELSE res.type
      t1 == IF f.required = "true" THEN NewNonNull(t0) ELSE t0
  IN  IF res.err THEN [fr EXCEPT !.i = @ + 1]
      ELSE [fr EXCEPT !.i = @ + 1,
                      !.asked = IF fr.mode = "in" THEN @ ELSE @ + 1,
                      !.fields = Put(@, f.name, NewField(fieldResolverFinder, f, t1, fr.mode))]

Deliver(fr, res) ==
  LET f == FieldTable[fr.sname][fr.i]
      c == ClassTable[typeReplacer][fr.sname][fr.i]
      t0 == IF c.call /\ c.list THEN NewList(res.type) ELSE res.type
      t1 == IF f.required = "true" /\ Kind(f.type) = "Ptr" THEN NewNonNull(t0) ELSE t0
  IN  IF res.err THEN [fr EXCEPT !.i = @ + 1]
      ELSE [fr EXCEPT !.i = @ + 1,
                      !.asked = IF fr.mode = "in" THEN @ ELSE @ + 1,
                      !.fields = Put(@, f.name, NewField(fieldResolverFinder, f, t1, fr.mode))]

\* A new call frame: lines 413-414 have marked the key and raised the level.
\* lvl and mode are the level and the target type of the mapper the call
\* runs on (the mapper of the root call, or the copy that the value receiver
\* of goFieldToGraphqlType has made of its caller's mapper).
Frame(o, lvl, mode) ==
  [sname |-> o.sname, key |-> o.key, i |-> 1, fields |-> EmptyMap, lvl |-> lvl, mode |-> mode,
   asked |-> 0]

Top == stack[Len(stack)]
LoopDone(fr) == fr.i > Len(FieldTable[fr.sname])
ReplaceTop(fr) == [stack EXCEPT ![Len(stack)] = fr]

\* ------------------------------------------------------------ the patch pass
\* getType (lines 329-345): the registered type for typeName, wrapped in a
\* List when kindName matches reList and then in a NonNull when it matches
\* RENonNull.  The caller has checked that typeName is registered.
getType(gt, typeName, kindName) ==
  LET t0 == gt[typeName]
      t1 == IF reList(kindName) THEN NewList(t0) ELSE t0
  IN  IF RENonNull(kindName) THEN NewNonNull(t1) ELSE t1

Replacement_TypeOnly(kind, fieldKey, fieldDef, type) ==
  IF kind = "InputObject"
  THEN [Name |-> fieldKey, Type |-> type, DefaultValue |-> "nil", Description |-> ""]
  ELSE [Name |-> fieldKey, Type |-> type, Resolve |-> "nil",
        DeprecationReason |-> "", Description |-> ""]

\* Lines 439-448 and 470-476: the field the pass puts in the place of
\* fieldDef, built from the new type and the members the code copies.
Replacement(kind, fieldKey, fieldDef, type) ==
  IF kind = "InputObject"
  THEN [Name |-> fieldKey, Type |-> type, DefaultValue |-> fieldDef.DefaultValue,
        Description |-> fieldDef.Description]
  ELSE [Name |-> fieldKey, Type |-> type, Resolve |-> fieldDef.Resolve,
        DeprecationReason |-> fieldDef.DeprecationReason,
        Description |-> fieldDef.Description]

\* Lines 425-449 (Object) and 456-477 (InputObject), one iteration: fieldDef
\* is the definition the range statement read for fieldKey.
PatchField(o, fieldKey, fieldDef, gt, h) ==
  LET words == reStub(TypeName(fieldDef.Type, h))
      deleted == DeleteField(o, fieldKey)
      typeName == words.word
      kindName == TypeString(fieldDef.Type, h)
  IN  IF ~words.ok THEN o
      ELSE IF typeName \notin DOMAIN gt THEN deleted
      ELSE AddFieldConfig(deleted, fieldKey,
                          Replacement(o.kind, fieldKey, fieldDef,
                                      getType(gt, typeName, kindName)))

\* The range over one object's Fields(), visiting the keys in the order ord.
RECURSIVE PatchObject(_, _, _, _, _)
PatchObject(o, ord, defs, gt, h) ==
  IF ord = << >> THEN o
  ELSE PatchObject(PatchField(o, Head(ord), defs[Head(ord)], gt, h),
                   Tail(ord), defs, gt, h)

\* The orders in which a range statement can visit the keys of a map.
Orders(S) ==
  {ord \in [1..Cardinality(S) -> S] : \A i, j \in 1..Cardinality(S) : ord[i] = ord[j] => i = j}

\* The keys of o at which the range does anything: lines 426-430 and 457-461
\* skip a field whose type name does not end in Stub.
StubKeys(o, h) == {k \in DOMAIN Fields(o) : reStub(TypeName(Fields(o)[k].Type, h)).ok}

\* What the pass can leave of object o: Go visits the keys of a map in an
\* order that is not specified, and only the order of the keys that are not
\* skipped can tell.
PatchOutcomes(o, gt, h) ==
  {PatchObject(Touch(o), ord, Fields(o), gt, h) : ord \in Orders(StubKeys(o, h))}

Registered(gt) == {gt[k].id : k \in DOMAIN gt}

\* Lines 422-484: the pass over every type of the registry; the heaps it can
\* leave, as sequences from object i on.
RECURSIVE PatchedFrom(_, _, _)
PatchedFrom(i, h, gt) ==
  IF i > Len(h) THEN { << >> }
  ELSE LET outs == IF i \in Registered(gt) THEN PatchOutcomes(h[i], gt, h) ELSE {h[i]}
       IN  {<<o>> \o rest : o \in outs, rest \in PatchedFrom(i + 1, h, gt)}

PatchedHeaps(h, gt) == PatchedFrom(1, h, gt)

\* --------------------------------------------------- the end of a call
\* Lines 526-538: a struct with no marshalled field is an error and is not
\* registered; otherwise the object is created and stored under the key.
FinishedHeap(fr, h) ==
  IF DOMAIN fr.fields = {} THEN h
  ELSE Append(h, [NewObject(fr.key, fr.mode, fr.fields, FALSE) EXCEPT !.asked = fr.asked])

FinishedTypes_FirstEntryWins(fr, gt, h) ==
  IF DOMAIN fr.fields = {} \/ fr.key \in DOMAIN gt THEN gt
  ELSE Put(gt, fr.key, ObjT(Len(h) + 1))

FinishedTypes_RegistersEmpty(fr, gt, h) == Put(gt, fr.key, ObjT(Len(h) + 1))

FinishedTypes(fr, gt, h) ==
  IF DOMAIN fr.fields = {} THEN gt
  ELSE Put(gt, fr.key, ObjT(Len(h) + 1))

FinishedResult(fr, h) ==
  IF DOMAIN fr.fields = {} THEN Failed ELSE Ok(ObjT(Len(h) + 1))

\* GoToGraphqlOutput / GoToGraphqlInput, lines 285-299 and 313-327: an error
\* is passed on; a type of the other kind is an error.
RootResult(res, mode, h) ==
  IF res.err THEN Failed
  ELSE IF res.type = NoType THEN Failed
  ELSE IF h[res.type.id].kind # (IF mode = "in" THEN "InputObject" ELSE "Object") THEN Failed
  ELSE res

\* The history of one root call: its argument and mode, what it returned,
\* whether goToGraphqlType went past its prologue (entered), the type that
\* goToGraphqlType gave the root function (raw), the patch passes run
\* during the call, and the replacer the mapper had.
Record(arg, mode, res, entered, raw, n) ==
  [arg |-> arg, mode |-> mode, type |-> res.type, err |-> res.err, entered |-> entered,
   raw |-> raw, passes |-> n, replacer |-> typeReplacer]

\* ----------------------------------------------------------------- actions
\* Lines 399-411: the registry and the heap after the cycle check has made
\* a stub for key and stored it under the key.
StubHeap(key, mode, h) == Append(h, StubObject(key, mode))
StubTypes(key, gt, h) == Put(gt, key, ObjT(Len(h) + 1))

\* What the prologue of goToGraphqlType gives for arg when it returns at
\* once: the result, the registry and the heap.  (ready is FALSE when the
\* call is entered instead.)
Prologue(arg, mode, gt, pt, h) ==
  LET o == EnterOutcome(arg, mode, gt, pt)
  IN  CASE o.kind = "err" ->
             [ready |-> TRUE, res |-> Failed, types |-> gt, heap |-> h, o |-> o]
        [] o.kind = "hit" ->
             [ready |-> TRUE, res |-> Ok(gt[o.key]), types |-> gt, heap |-> h, o |-> o]
        [] o.kind = "stub" ->
             [ready |-> TRUE, res |-> Ok(ObjT(Len(h) + 1)),
              types |-> StubTypes(o.key, gt, h), heap |-> StubHeap(o.key, mode, h), o |-> o]
        [] OTHER ->
             [ready |-> FALSE, res |-> Failed, types |-> gt, heap |-> h, o |-> o]

\* A root call, GoToGraphqlOutput(arg) or GoToGraphqlInput(arg): it sets the
\* target type and runs the prologue of goToGraphqlType.  A rejected
\* argument, a memo hit and a stub return at once; otherwise the call is
\* entered: the key is marked and the level raised (lines 413-414).  The
\* frame of a root call remembers the registry the call found (before,
\* history).
Call_LevelBeforeChecks(arg, mode) ==
  LET p == Prologue(arg, mode, graphqlTypes, parentTypes, heap)
  IN  /\ fault = ""
      /\ stack = << >>
      /\ calls < MaxCalls
      /\ calls' = calls + 1
      /\ targetType' = mode
      /\ graphqlTypes' = p.types
      /\ heap' = p.heap
      /\ results' = IF p.ready
                    THEN Append(results, Record(arg, mode, RootResult(p.res, mode, p.heap),
                                                FALSE, p.res.type, 0))
                    ELSE results
      /\ parentTypes' = IF p.ready THEN parentTypes ELSE parentTypes \cup {p.o.key}
      /\ level' = level + 1
      /\ stack' = IF p.ready THEN << >> ELSE <<Frame(p.o, level + 1, mode) @@ [arg |-> arg, before |-> graphqlTypes]>>
      /\ passes' = 0
      /\ UNCHANGED <<hooks, settings, fault, parked, applied>>

Call(arg, mode) ==
  LET p == Prologue(arg, mode, graphqlTypes, parentTypes, heap)
  IN  /\ fault = ""
      /\ stack = << >>
      /\ calls < MaxCalls
      /\ calls' = calls + 1
      /\ targetType' = mode
      /\ graphqlTypes' = p.types
      /\ heap' = p.heap
      /\ results' = IF p.ready
                    THEN Append(results, Record(arg, mode, RootResult(p.res, mode, p.heap),
                                                FALSE, p.res.type, 0))
                    ELSE results
      /\ parentTypes' = IF p.ready THEN parentTypes ELSE parentTypes \cup {p.o.key}
      /\ level' = IF p.ready THEN level ELSE level + 1
      /\ stack' = IF p.ready THEN << >> ELSE <<Frame(p.o, level + 1, mode) @@ [arg |-> arg, before |-> graphqlTypes]>>
      /\ passes' = 0
      /\ UNCHANGED <<hooks, settings, fault, parked, applied>>

\* The field the loop of the running call is at, and how it is classified.
TopField == FieldTable[Top.sname][Top.i]
TopClass == ClassTable[typeReplacer][Top.sname][Top.i]

\* The target type and the level of the mapper copy that the running call's
\* goFieldToGraphqlType works on (line 541): the root call copies the shared
\* mapper as it is now, a nested call copies its own copy.
ChildMode == IF Len(stack) = 1 THEN targetType ELSE Top.mode
ChildLevel == IF Len(stack) = 1 THEN level ELSE Top.lvl

\* What goFieldToGraphqlType gives for the field without entering a call.
FieldOutcome ==
  LET c == TopClass
  IN  IF c.call
      THEN Prologue(c.arg, ChildMode, graphqlTypes, parentTypes, heap)
      ELSE [ready |-> TRUE, res |-> Ok(c.type), types |-> graphqlTypes, heap |-> heap,
            o |-> [kind |-> "none", key |-> << >>, sname |-> << >>]]

\* One turn of the field loop whose field needs no new call: a scalar, an
\* interface, a struct already defined, a struct that is being compiled (a
\* stub is inserted), or a struct type the prologue rejects.
Field ==
  /\ stack # << >>
  /\ ~LoopDone(Top)
  /\ FieldOutcome.ready
  /\ stack' = ReplaceTop(Deliver(Top, FieldOutcome.res))
  /\ graphqlTypes' = FieldOutcome.types
  /\ heap' = FieldOutcome.heap
  /\ UNCHANGED <<hooks, settings, fault, parentTypes, level, targetType, calls, results, passes, parked, applied>>

\* One turn of the field loop whose field is a struct not yet defined and
\* not being compiled: goFieldToGraphqlType copies the mapper (it has a value
\* receiver) and the nested goToGraphqlType marks the key and raises the
\* level of the copy.
Descend ==
  /\ stack # << >>
  /\ ~LoopDone(Top)
  /\ ~FieldOutcome.ready
  /\ Len(stack) < MaxDepth
  /\ parentTypes' = parentTypes \cup {FieldOutcome.o.key}
  /\ stack' = Append(stack, Frame(FieldOutcome.o, ChildLevel + 1, ChildMode)
                               @@ [arg |-> TopClass.arg])
  /\ UNCHANGED <<hooks, settings, fault, graphqlTypes, level, targetType, heap, calls, results, passes, parked, applied>>

\* Line 420: the deferred function lowers the level of its mapper.
Lowered_Kept(lvl) == lvl

Lowered(lvl) == lvl - 1

\* Line 421: the number of patch passes the deferred function runs, one when
\* the lowered level is 0.
PassRuns_Always(lvl) == 1

PassRuns(lvl) == IF Lowered(lvl) = 0 THEN 1 ELSE 0

DeferredHeaps_PassBeforeRegistration(fr, gt, h, lvl) ==
  IF PassRuns(lvl) = 1
  THEN PatchedHeaps(FinishedHeap(fr, h), gt)
  ELSE {FinishedHeap(fr, h)}

\* The heaps the deferred function of a call can leave (lines 419-487): at
\* level 0 the patch pass has run over the registry, which holds the type
\* line 537 has stored.
DeferredHeaps(fr, gt, h, lvl) ==
  IF PassRuns(lvl) = 1
  THEN PatchedHeaps(FinishedHeap(fr, h), FinishedTypes(fr, gt, h))
  ELSE {FinishedHeap(fr, h)}

\* A nested call returns: lines 526-538, then the deferred function, which
\* unmarks the key and lowers the level of the mapper copy the call ran on
\* (the copy's level was at least 2, so the pass does not run); the
\* caller's field loop takes the result.
Return ==
  /\ Len(stack) > 1
  /\ LoopDone(Top)
  /\ heap' \in DeferredHeaps(Top, graphqlTypes, heap, Top.lvl)
  /\ graphqlTypes' = FinishedTypes(Top, graphqlTypes, heap)
  /\ parentTypes' = IF PassRuns(Top.lvl) = 1 THEN {} ELSE parentTypes \ {Top.key}
  /\ passes' = passes + PassRuns(Top.lvl)
  /\ stack' = [SubSeq(stack, 1, Len(stack) - 1) EXCEPT
                 ![Len(stack) - 1] = Deliver(@, FinishedResult(Top, heap))]
  /\ UNCHANGED <<hooks, settings, fault, level, targetType, calls, results, parked, applied>>

\* The root call returns: lines 526-538, then the deferred function, which
\* unmarks the key, lowers the level and, at level 0, runs the patch pass
\* over the registry and empties parentTypes.
Finish ==
  /\ Len(stack) = 1
  /\ LoopDone(Top)
  /\ graphqlTypes' = FinishedTypes(Top, graphqlTypes, heap)
  /\ level' = Lowered(level)
  /\ parentTypes' = IF PassRuns(level) = 1 THEN {} ELSE parentTypes \ {Top.key}
  /\ passes' = passes + PassRuns(level)
  /\ \E h \in DeferredHeaps(Top, graphqlTypes, heap, level) :
       /\ heap' = h
       /\ results' = Append(results,
             Record(Top.arg, Top.mode, RootResult(FinishedResult(Top, heap), Top.mode, h),
                    TRUE, FinishedResult(Top, heap).type, passes + PassRuns(level)))
  /\ stack' = << >>
  /\ UNCHANGED <<hooks, settings, fault, targetType, calls, parked, applied>>

\* SetDescription, lines 259-272, on an Object or an InputObject: Fields()
\* builds the field-definition map when needed, and the definition of
\* fieldName, when there is one, gets the description (Description of a
\* FieldDefinition, PrivateDescription of an InputObjectField).
Described(o, fieldName, description) ==
  IF fieldName \in DOMAIN Fields(o)
  THEN [Touch(o) EXCEPT !.fields[fieldName].Description = description]
  ELSE Touch(o)

\* The values the callers pass to SetDescription: what the root calls have
\* returned to them (the object, or after an error the nil *graphql.Object
\* or *graphql.InputObject of lines 286, 291, 297, 314, 319, 325), and a
\* graphql type that is no object.
Handed == {results[r].type : r \in DOMAIN results} \cup {Scalar("String")}

\* The text the callers pass to SetDescription.
Descriptions == {"patched"}

\* The branch the type switch of line 260 takes: a nil pointer to an Object
\* or an InputObject in the interface value is of the pointer's type, so
\* it takes the case of lines 261 / 265 as an object does; any other value
\* takes the default case.
IsObjectPointer(graphqlType) ==
  graphqlType.w = << >> /\ graphqlType.k \in {"obj", "nil"}

\* A call SetDescription(graphqlType, fieldName, description) made while no
\* root call runs.  Fields() on a nil pointer (lines 262, 266) reads a
\* member of the object: the call panics.  A graphqlType that is no pointer
\* to an object is logged and ignored (line 270).
SetDescription(graphqlType, fieldName, description) ==
  /\ fault = ""
  /\ stack = << >>
  /\ settings < MaxSettings
  /\ settings' = settings + 1
  /\ IF ~IsObjectPointer(graphqlType)
     THEN UNCHANGED <<heap, fault>>
     ELSE IF graphqlType = NoType
     THEN fault' = "nil pointer dereference" /\ heap' = heap
     ELSE /\ heap' = [heap EXCEPT ![graphqlType.id] = Described(@, fieldName, description)]
          /\ fault' = fault
  /\ UNCHANGED <<hooks, graphqlTypes, parentTypes, level, targetType, stack, calls, results,
                 passes, parked, applied>>

\* SetTypeReplacer (lines 245-252) and SetFieldResolverFinder (lines 222-229),
\* called while no root call runs.
SetTypeReplacer(typeFinder) ==
  /\ fault = ""
  /\ stack = << >>
  /\ settings < MaxSettings
  /\ settings' = settings + 1
  /\ typeReplacer' = typeFinder
  /\ UNCHANGED <<graphqlTypes, parentTypes, level, targetType, heap, stack, calls, results,
                 passes, parked, applied, fieldResolverFinder, fault>>

SetFieldResolverFinder(finder) ==
  /\ fault = ""
  /\ stack = << >>
  /\ settings < MaxSettings
  /\ settings' = settings + 1
  /\ fieldResolverFinder' = finder
  /\ UNCHANGED <<graphqlTypes, parentTypes, level, targetType, heap, stack, calls, results,
                 passes, parked, applied, typeReplacer, fault>>

\* The calls of the package's functions other than the root compile calls.
Setting ==
  \/ \E t \in Handed, name \in {"Self", "Name", "Pay"}, text \in Descriptions :
       SetDescription(t, name, text)
  \/ \E typeFinder \in TypeReplacers : SetTypeReplacer(typeFinder)
  \/ \E finder \in FieldResolverFinders : SetFieldResolverFinder(finder)

Next ==
  \/ \E arg \in RootArgs, mode \in Modes : Call(arg, mode)
  \/ Field
  \/ Descend
  \/ Return
  \/ Finish
  \/ Setting

Spec == Init /\ [][Next]_vars

\* ---------------------------------------------------------------- fairness
\* The calls are synchronous: a call that has been entered keeps running
\* until it returns.
Step == Field \/ Descend \/ Return \/ Finish

\* The behaviours checked for termination: fewer root calls, every call
\* run to its end.
LiveNext ==
  \/ \E arg \in RootArgs, mode \in Modes : calls < MaxLiveCalls /\ Call(arg, mode)
  \/ Step
  \/ Setting

LiveSpec == Init /\ [][LiveNext]_vars /\ WF_vars(Step)

\* ------------------------------------------------------- the pure functions
\* kindToGraphqlScalar and the classification of goFieldToGraphqlType,
\* applied to inputs drawn from the reflect kinds and from field
\* declarations of every shape.
Kinds ==
  { "Bool", "Int", "Int8", "Int16", "Int32", "Int64",
    "Uint", "Uint8", "Uint16", "Uint32", "Uint64", "Uintptr",
    "Float32", "Float64", "Complex64", "Complex128",
    "Array", "Chan", "Func", "Interface", "Map", "Ptr", "Slice",
    "String", "Struct", "UnsafePointer" }

ProbeFields ==
  LET bases == { TPrim("Int"), TPrim("String"), TPrim("Uint64"), TStruct(<<"Child">>),
                 TimeType, ObjectIDType, TIface, TShaper }
      types == bases \cup {TPtr(t) : t \in bases} \cup {TSlice(t) : t \in bases}
  IN  {Fld("F", t, req, rep) : t \in types, req \in {"", "true"},
                               rep \in {<< >>, <<"Other">>}}

\* kindToGraphqlScalar applied to a kind, in a build whose int, uint and
\* uintptr have word bits.
ApplyScalar ==
  \E kind \in Kinds, word \in {32, 64} :
    /\ Len(applied) < MaxApplied
    /\ applied' = Append(applied, [fn |-> "kindToGraphqlScalar", kind |-> kind,
                                    word |-> word, out |-> kindToGraphqlScalar(kind)])
    /\ UNCHANGED <<hooks, settings, fault, graphqlTypes, parentTypes, level, targetType, heap, stack, calls,
                   results, passes, parked>>

\* The fields goFieldToGraphqlType settles itself, without a call of
\* goToGraphqlType: the special types (lines 557-564), and the fields that
\* are not of struct kind (line 567) nor sequences of a struct (line 578).
SettledAtOnce(replacer, f) ==
  LET structFieldType == IF Kind(f.type) = "Ptr" THEN Elem(f.type) ELSE f.type
      substitutedType == GetType(replacer, f.replace)
      has == substitutedType # NoGoType
      t == IF has THEN substitutedType ELSE structFieldType
  IN  \/ t \in {ObjectIDType, TimeType}
      \/ /\ Kind(structFieldType) # "Struct"
         /\ Kind(structFieldType) = "Slice" =>
              Kind(IF has THEN substitutedType ELSE Elem(structFieldType)) # "Struct"

\* goFieldToGraphqlType applied to a field that it settles itself (a field
\* of struct kind, or a sequence of structs, makes it compile the struct:
\* those are fields of the structs of Spec).
ApplyClassify ==
  \E f \in ProbeFields, replacer \in TypeReplacers :
    /\ SettledAtOnce(replacer, f)
    /\ Len(applied) < MaxApplied
    /\ applied' = Append(applied, [fn |-> "goFieldToGraphqlType", field |-> f,
                                    replacer |-> replacer, out |-> Classify(replacer, f)])
    /\ UNCHANGED <<hooks, settings, fault, graphqlTypes, parentTypes, level, targetType, heap, stack, calls,
                   results, passes, parked>>

FnNext == ApplyScalar \/ ApplyClassify

FnSpec == Init /\ [][FnNext]_vars

\* ------------------------------------------------------------ concurrency
\* Two goroutines call the package's functions on the one mapper
\* (objectMapper, line 173, has no lock).  stack is the call stack of the
\* goroutine that runs now, parked that of the other; Switch is the scheduler
\* changing goroutine.  Here a call advances by one access to the shared
\* mapper at a time: each frame has a position pc, and the steps below are
\* the accesses in the order of the code.  The root call works on the shared
\* mapper; a nested call works on the copy that the value receiver of
\* goFieldToGraphqlType has made (line 541), so its level, target type and
\* hooks are its own (lvl, mode, replacer, finder of the frame) while the two
\* maps are the shared ones.  A read or a write of one field of the mapper
\* (a hook, the level) or of a field definition (its description) is one
\* access.  passes is not used here: the passes a root call has run are
\* counted in its frame (ran).

\* len(indentBuf), line 174.
IndentBufLen == 10000

\* tm.level is a uint: the value 2^64 - k is written -k here, so that
\* level-- at 0 gives -1 and level++ at -1 gives 0.  indent() (lines
\* 254-256) slices indentBuf[0 : 3*tm.level], which panics when that is
\* beyond the buffer.
IndentPanics(lvl) == lvl < 0 \/ 3 * lvl > IndentBufLen

\* The fields of the mapper the running call works on.
TmRoot == Len(stack) = 1
TmLevel == IF TmRoot THEN level ELSE Top.lvl
TmTarget == IF TmRoot THEN targetType ELSE Top.mode
TmReplacer == IF TmRoot THEN typeReplacer ELSE Top.replacer
TmFinder == IF TmRoot THEN fieldResolverFinder ELSE Top.finder

\* Line 485 gives the shared mapper a new parentTypes map; the mapper copies
\* of the nested calls in progress keep the old one.  The nested frames of
\* one goroutine are copies of one another, so they share it: it is kept in
\* the first of them (detached, own).
Detached(stk) == Len(stk) >= 2 /\ stk[2].detached
TmParents == IF Detached(stack) THEN stack[2].own ELSE parentTypes

\* Line 394: the key is marked in the in-progress map.
InProgress_AnyMarked(key, pt) == pt # {}

InProgress(key, pt) == key \in pt

\* A copy of the mapper in the making: the level, the target type and the
\* hooks as read, and the parentTypes map the copy points to (the map of
\* the shared mapper, or, when line 485 has replaced that one since the
\* pointer was read, the map own).
NoCopy == [lvl |-> 0, mode |-> "out", replacer |-> "default", finder |-> "default",
           detached |-> FALSE, own |-> {}]

\* A frame of goToGraphqlType at its first access to the mapper (line 382),
\* on a mapper whose level, target type and hooks are as given.  kind is the
\* dynamic type of the local fields ("nil", "in", "out"); entered, before
\* (root call) and the hooks a nested call has are as in Frame.  cp is the
\* mapper copy being made for the field.  Of the patch pass: ran counts the
\* passes run in the root call (history, kept in its root frame); snap are
\* the keys the registry had when its range began, seen those visited; cur
\* is the object in hand, rgen and rmap the map the range over its fields
\* goes over, done the keys that range has given, fkey, fdef and ftype the
\* field in hand.
CFrame(arg, lvl, mode, replacer, finder) ==
  [arg |-> arg, sname |-> GoName(IF Kind(arg) = "Ptr" THEN Elem(arg) ELSE arg),
   key |-> << >>, kind |-> "nil", i |-> 1, fields |-> EmptyMap, asked |-> 0,
   lvl |-> lvl, mode |-> mode, replacer |-> replacer, finder |-> finder,
   pc |-> "key", tmp |-> 0, seen |-> {}, snap |-> {}, res |-> Failed,
   cls |-> Immediate(NoType), got |-> Failed, gotLvl |-> 0, cp |-> NoCopy,
   ran |-> 0, cur |-> 0, rgen |-> 0, rmap |-> EmptyMap, done |-> {},
   fkey |-> "", fdef |-> << >>, ftype |-> NoType,
   detached |-> FALSE, own |-> {}, entered |-> FALSE, before |-> graphqlTypes]

\* Lines 360-379: the argument is a struct with a name.
Accepted(arg) ==
  /\ arg # NilArg
  /\ Kind(IF Kind(arg) = "Ptr" THEN Elem(arg) ELSE arg) = "Struct"
  /\ GoName(IF Kind(arg) = "Ptr" THEN Elem(arg) ELSE arg) # << >>

Running(pc) == fault = "" /\ stack # << >> /\ Top.pc = pc
Goto(pc) == ReplaceTop([Top EXCEPT !.pc = pc])
LoopPc(fr) == IF LoopDone(fr) THEN "endLog" ELSE "fieldLog"

\* The running call returns res: the root function checks it and its caller
\* gets the result (lines 285-299, 313-327); the field loop of the caller of
\* a nested call gets res and the level the mapper copy is left with.
LeaveStack(res) ==
  IF Len(stack) = 1 THEN << >>
  ELSE [SubSeq(stack, 1, Len(stack) - 1) EXCEPT
          ![Len(stack) - 1] = [@ EXCEPT !.got = res, !.gotLvl = Top.lvl, !.pc = "deliver",
                                        !.detached = @ /\ Len(stack) > 2]]
LeaveResults(res, h) ==
  IF Len(stack) = 1
  THEN Append(results, Record(Top.arg, Top.mode, RootResult(res, Top.mode, h),
                              Top.entered, res.type, Top.ran))
  ELSE results

\* GoToGraphqlOutput(arg) / GoToGraphqlInput(arg) begins: line 283 / 311
\* writes the target type; the argument checks touch nothing shared.
Start(arg, mode) ==
  /\ fault = ""
  /\ stack = << >>
  /\ calls < MaxCalls
  /\ calls' = calls + 1
  /\ targetType' = mode
  /\ IF Accepted(arg)
     THEN /\ stack' = <<CFrame(arg, 0, mode, typeReplacer, fieldResolverFinder)>>
          /\ results' = results
     ELSE /\ stack' = << >>
          /\ results' = Append(results, Record(arg, mode, Failed, FALSE, NoType, 0))
  /\ UNCHANGED <<graphqlTypes, parentTypes, level, heap, passes, parked, applied, hooks,
                 settings, fault>>

\* Lines 382-385: the target type is read; for input the key gets its
\* suffix and fields its map.
ReadTarget ==
  /\ Running("key")
  /\ stack' = ReplaceTop([Top EXCEPT
                 !.kind = IF TmTarget = "in" THEN "in" ELSE "nil",
                 !.key = IF TmTarget = "in" THEN Top.sname \o <<"_Input">> ELSE Top.sname,
                 !.pc = "memo"])
  /\ UNCHANGED <<graphqlTypes, parentTypes, level, targetType, heap, calls, results, passes,
                 parked, applied, hooks, settings, fault>>

\* Line 386: the registry is read.
Lookup ==
  /\ Running("memo")
  /\ stack' = ReplaceTop(IF Top.key \in DOMAIN graphqlTypes
                         THEN [Top EXCEPT !.res = Ok(graphqlTypes[Top.key]), !.pc = "memoLog"]
                         ELSE [Top EXCEPT !.pc = "kind"])
  /\ UNCHANGED <<graphqlTypes, parentTypes, level, targetType, heap, calls, results, passes,
                 parked, applied, hooks, settings, fault>>

\* Lines 388-389: the registered type is returned, after a log line that
\* reads the level.
LookupLog ==
  /\ Running("memoLog")
  /\ IF IndentPanics(TmLevel)
     THEN fault' = "index out of range" /\ UNCHANGED <<stack, results>>
     ELSE /\ fault' = fault
          /\ stack' = LeaveStack(Top.res)
          /\ results' = LeaveResults(Top.res, heap)
  /\ UNCHANGED <<graphqlTypes, parentTypes, level, targetType, heap, calls, passes,
                 parked, applied, hooks, settings>>

\* Lines 391-393: the target type is read again; for output fields gets
\* its map.
ChooseFields ==
  /\ Running("kind")
  /\ stack' = ReplaceTop([Top EXCEPT !.kind = IF TmTarget = "out" THEN "out" ELSE @,
                                     !.pc = "cycle"])
  /\ UNCHANGED <<graphqlTypes, parentTypes, level, targetType, heap, calls, results, passes,
                 parked, applied, hooks, settings, fault>>

\* Line 394: the in-progress map is read.
CycleCheck ==
  /\ Running("cycle")
  /\ stack' = Goto(IF InProgress(Top.key, TmParents) THEN "stubLog" ELSE "mark")
  /\ UNCHANGED <<graphqlTypes, parentTypes, level, targetType, heap, calls, results, passes,
                 parked, applied, hooks, settings, fault>>

\* Lines 395-398: the log line of the cycle check reads the level.
CycleLog ==
  /\ Running("stubLog")
  /\ IF IndentPanics(TmLevel)
     THEN fault' = "index out of range" /\ stack' = stack
     ELSE fault' = fault /\ stack' = Goto("stub")
  /\ UNCHANGED <<graphqlTypes, parentTypes, level, targetType, heap, calls, results, passes,
                 parked, applied, hooks, settings>>

\* Lines 399-411: the stub is made, stored under the key and returned; when
\* fields is nil no case of the switch matches and nil is returned.
MakeStub ==
  /\ Running("stub")
  /\ LET res == IF Top.kind = "nil" THEN Ok(NoType) ELSE Ok(ObjT(Len(heap) + 1))
     IN  /\ heap' = IF Top.kind = "nil" THEN heap ELSE StubHeap(Top.key, Top.kind, heap)
         /\ graphqlTypes' = IF Top.kind = "nil" THEN graphqlTypes
                            ELSE StubTypes(Top.key, graphqlTypes, heap)
         /\ stack' = LeaveStack(res)
         /\ results' = LeaveResults(res, heap')
  /\ UNCHANGED <<parentTypes, level, targetType, calls, passes, parked, applied, hooks,
                 settings, fault>>

\* Line 413: the key is marked.  On a mapper copy line 414 follows at once
\* (the level of the copy is not shared).
Mark ==
  /\ Running("mark")
  /\ LET fr == IF TmRoot THEN [Top EXCEPT !.entered = TRUE, !.pc = "incRead"]
               ELSE [Top EXCEPT !.entered = TRUE, !.lvl = @ + 1, !.pc = LoopPc(Top)]
     IN  IF Detached(stack)
         THEN /\ stack' = [ReplaceTop(fr) EXCEPT ![2].own = @ \cup {Top.key}]
              /\ parentTypes' = parentTypes
         ELSE /\ stack' = ReplaceTop(fr)
              /\ parentTypes' = parentTypes \cup {Top.key}
  /\ UNCHANGED <<graphqlTypes, level, targetType, heap, calls, results, passes,
                 parked, applied, hooks, settings, fault>>

\* Line 414 on the shared mapper: tm.level++ reads the level and then writes
\* it.
RaiseRead ==
  /\ Running("incRead")
  /\ stack' = ReplaceTop([Top EXCEPT !.tmp = level, !.pc = "incWrite"])
  /\ UNCHANGED <<graphqlTypes, parentTypes, level, targetType, heap, calls, results, passes,
                 parked, applied, hooks, settings, fault>>

RaiseWrite ==
  /\ Running("incWrite")
  /\ level' = Top.tmp + 1
  /\ stack' = Goto(LoopPc(Top))
  /\ UNCHANGED <<graphqlTypes, parentTypes, targetType, heap, calls, results, passes,
                 parked, applied, hooks, settings, fault>>

\* goFieldToGraphqlType writes a log line, which reads the level of its
\* mapper copy, before it returns or calls goToGraphqlType: line 554 for a
\* substitution, 591 and 599 for a sequence of interfaces or scalars,
\* 682-683 in kindToGraphqlScalar for the kinds it has no case for
\* (loggedKinds).
ClassifyLogs(replacer, f) ==
  LET loggedKinds == { "Complex64", "Complex128", "Array", "Chan", "Func", "Map", "Uintptr",
                       "Interface", "Ptr", "Slice", "Struct", "UnsafePointer" }
      structFieldType == IF Kind(f.type) = "Ptr" THEN Elem(f.type) ELSE f.type
      substitutedType == GetType(replacer, f.replace)
      has == substitutedType # NoGoType
      t == IF has THEN substitutedType ELSE structFieldType
      e == IF has THEN substitutedType ELSE Elem(structFieldType)
  IN  \/ has
      \/ /\ t \notin {ObjectIDType, TimeType}
         /\ CASE Kind(structFieldType) = "Struct" -> FALSE
              [] Kind(structFieldType) = "Slice" -> Kind(e) # "Struct"
              [] Kind(structFieldType) = "Interface" -> FALSE
              [] OTHER -> Kind(structFieldType) \in loggedKinds

\* goFieldToGraphqlType reads of its mapper copy more than the replacer: it
\* logs, or it calls goToGraphqlType, under one of the replacers.
ReadsWholeCopy(sname, i) ==
  \E r \in TypeReplacers :
    ClassTable[r][sname][i].call \/ ClassifyLogs(r, FieldTable[sname][i])

\* Line 492: the log line of the field loop reads the level.  Then line 493
\* calls goFieldToGraphqlType, whose value receiver copies the mapper.  The
\* shared mapper is copied field by field, in an order that is not
\* specified, while the other goroutine goes on: each field of the copy is
\* the field of the mapper as it was at some moment between the call and
\* the first use of the copy.  Here the copy begins with the fields as they
\* are at the call, and CopyField gives it a field as it is at a later
\* moment.  When only the replacer of the copy is read, FieldStep reads it.
FieldLog ==
  /\ Running("fieldLog")
  /\ IF IndentPanics(TmLevel)
     THEN fault' = "index out of range" /\ stack' = stack
     ELSE /\ fault' = fault
          /\ stack' = IF TmRoot /\ ReadsWholeCopy(Top.sname, Top.i)
                      THEN ReplaceTop([Top EXCEPT
                             !.cp = [NoCopy EXCEPT !.lvl = level, !.mode = targetType,
                                                   !.replacer = typeReplacer,
                                                   !.finder = fieldResolverFinder],
                             !.pc = "copy"])
                      ELSE Goto("field")
  /\ UNCHANGED <<graphqlTypes, parentTypes, level, targetType, heap, calls, results, passes,
                 parked, applied, hooks, settings>>

\* Line 493, the copy of the shared mapper: a field that the other goroutine
\* has written since the call is read after that write.  The fields of the
\* mapper (lines 186-191) that another goroutine writes are level,
\* targetType and the pointer to the parentTypes map (its root call) and
\* the hooks (their setters); graphqlTypes always points to the one
\* registry.
CopyField ==
  /\ Running("copy")
  /\ \E x \in {"parentTypes", "level", "typeReplacer", "fieldResolverFinder",
              "targetType"} :
       LET c == CASE x = "level" -> [Top.cp EXCEPT !.lvl = level]
                  [] x = "targetType" -> [Top.cp EXCEPT !.mode = targetType]
                  [] x = "typeReplacer" -> [Top.cp EXCEPT !.replacer = typeReplacer]
                  [] x = "fieldResolverFinder" ->
                       [Top.cp EXCEPT !.finder = fieldResolverFinder]
                  [] OTHER -> [Top.cp EXCEPT !.detached = FALSE, !.own = {}]
       IN  /\ c # Top.cp
           /\ stack' = ReplaceTop([Top EXCEPT !.cp = c])
  /\ UNCHANGED <<graphqlTypes, parentTypes, level, targetType, heap, calls, results, passes,
                 parked, applied, hooks, settings, fault>>

\* The mapper copy goFieldToGraphqlType works on: the one made of the shared
\* mapper, or the mapper of the running call as it is now.
Copy ==
  IF Top.pc = "copy" THEN Top.cp
  ELSE [NoCopy EXCEPT !.lvl = TmLevel, !.mode = TmTarget, !.replacer = TmReplacer,
                      !.finder = TmFinder]

\* Lines 541-614: goFieldToGraphqlType classifies the field with the replacer
\* of its copy; for a struct it calls goToGraphqlType on the copy.
FieldStep ==
  /\ fault = ""
  /\ stack # << >>
  /\ Top.pc \in {"field", "copy"}
  /\ LET f == FieldTable[Top.sname][Top.i]
         c == ClassTable[Copy.replacer][Top.sname][Top.i]
         settled(res) == ReplaceTop([Top EXCEPT !.cls = c, !.got = res, !.gotLvl = Copy.lvl,
                                                !.cp = NoCopy, !.pc = "deliver"])
     IN  IF ClassifyLogs(Copy.replacer, f) /\ IndentPanics(Copy.lvl)
         THEN fault' = "index out of range" /\ stack' = stack
         ELSE /\ fault' = fault
              /\ stack' =
                   IF ~c.call THEN settled(Ok(c.type))
                   ELSE IF ~Accepted(c.arg) \/ Len(stack) >= MaxDepth THEN settled(Failed)
                   ELSE Append(ReplaceTop([Top EXCEPT !.cls = c, !.cp = NoCopy, !.pc = "await"]),
                               [CFrame(c.arg, Copy.lvl, Copy.mode, Copy.replacer, Copy.finder)
                                  EXCEPT !.detached = Copy.detached, !.own = Copy.own])
  /\ UNCHANGED <<graphqlTypes, parentTypes, level, targetType, heap, calls, results, passes,
                 parked, applied, hooks, settings>>

\* Lines 579-585 and 494-524: what the loop does with the result got of
\* goFieldToGraphqlType.  A list of a struct is logged with the level of the
\* copy (583), a failed field with the level of the mapper (495); the finder
\* of the mapper is asked for an output field; when fields is nil nothing is
\* stored.
Settle ==
  /\ Running("deliver")
  /\ LET f == FieldTable[Top.sname][Top.i]
         c == Top.cls
         res == Top.got
         t0 == IF c.call /\ c.list THEN NewList(res.type) ELSE res.type
         t1 == IF f.required = "true" /\ Kind(f.type) = "Ptr" THEN NewNonNull(t0) ELSE t0
         next == [Top EXCEPT !.i = @ + 1, !.pc = LoopPc([Top EXCEPT !.i = @ + 1])]
     IN  IF \/ res.err /\ IndentPanics(TmLevel)
            \/ ~res.err /\ c.call /\ c.list /\ IndentPanics(Top.gotLvl)
         THEN fault' = "index out of range" /\ stack' = stack
         ELSE /\ fault' = fault
              /\ stack' = ReplaceTop(
                   IF res.err \/ Top.kind = "nil" THEN next
                   ELSE [next EXCEPT !.asked = IF Top.kind = "in" THEN @ ELSE @ + 1,
                                     !.fields = Put(@, f.name, NewField(TmFinder, f, t1, Top.kind))])
  /\ UNCHANGED <<graphqlTypes, parentTypes, level, targetType, heap, calls, results, passes,
                 parked, applied, hooks, settings>>

\* Line 526: the log line after the loop reads the level.
EndLog ==
  /\ Running("endLog")
  /\ IF IndentPanics(TmLevel)
     THEN fault' = "index out of range" /\ stack' = stack
     ELSE fault' = fault /\ stack' = Goto("register")
  /\ UNCHANGED <<graphqlTypes, parentTypes, level, targetType, heap, calls, results, passes,
                 parked, applied, hooks, settings>>

\* Lines 527-537: without a stored field the call fails; otherwise the
\* object is made, of the kind of fields, and written to the registry.
Register ==
  /\ Running("register")
  /\ LET made == DOMAIN Top.fields # {}
         o == [NewObject(Top.key, Top.kind, Top.fields, FALSE) EXCEPT
                 !.asked = Top.asked, !.replacer = TmReplacer, !.finder = TmFinder]
     IN  /\ heap' = IF made THEN Append(heap, o) ELSE heap
         /\ graphqlTypes' = IF made THEN Put(graphqlTypes, Top.key, ObjT(Len(heap) + 1))
                            ELSE graphqlTypes
         /\ stack' = ReplaceTop([Top EXCEPT !.res = IF made THEN Ok(ObjT(Len(heap) + 1))
                                                    ELSE Failed,
                                            !.pc = "unmark"])
  /\ UNCHANGED <<parentTypes, level, targetType, calls, results, passes, parked, applied,
                 hooks, settings, fault>>

\* Line 419: the deferred function unmarks the key.  On a mapper copy lines
\* 420-421 follow at once: the level of the copy is lowered and tested.
Unmark ==
  /\ Running("unmark")
  /\ LET fr == IF TmRoot THEN [Top EXCEPT !.pc = "decRead"]
               ELSE [Top EXCEPT !.lvl = @ - 1,
                                !.pc = IF Top.lvl - 1 = 0 THEN "range" ELSE "leave"]
         ran == IF ~TmRoot /\ Top.lvl - 1 = 0 THEN 1 ELSE 0
     IN  IF Detached(stack)
         THEN /\ stack' = [ReplaceTop(fr) EXCEPT ![2].own = @ \ {Top.key},
                                                 ![1].ran = @ + ran]
              /\ parentTypes' = parentTypes
         ELSE /\ stack' = [ReplaceTop(fr) EXCEPT ![1].ran = @ + ran]
              /\ parentTypes' = parentTypes \ {Top.key}
  /\ UNCHANGED <<graphqlTypes, level, targetType, heap, calls, results, passes,
                 parked, applied, hooks, settings, fault>>

\* Line 420 on the shared mapper: tm.level-- reads the level and then writes
\* it.
LowerRead ==
  /\ Running("decRead")
  /\ stack' = ReplaceTop([Top EXCEPT !.tmp = level, !.pc = "decWrite"])
  /\ UNCHANGED <<graphqlTypes, parentTypes, level, targetType, heap, calls, results, passes,
                 parked, applied, hooks, settings, fault>>

LowerWrite ==
  /\ Running("decWrite")
  /\ level' = Top.tmp - 1
  /\ stack' = Goto("test")
  /\ UNCHANGED <<graphqlTypes, parentTypes, targetType, heap, calls, results, passes,
                 parked, applied, hooks, settings, fault>>

\* Line 421 on the shared mapper: the level is read; at 0 the pass is to
\* run.
TestLevel ==
  /\ Running("test")
  /\ stack' = ReplaceTop([Top EXCEPT !.ran = IF level = 0 THEN @ + 1 ELSE @,
                                     !.pc = IF level = 0 THEN "range" ELSE "leave"])
  /\ UNCHANGED <<graphqlTypes, parentTypes, level, targetType, heap, calls, results, passes,
                 parked, applied, hooks, settings, fault>>

\* Line 422: the range over the registry begins.  The entries the registry
\* has now are those the range is bound to visit; over an empty registry
\* the range ends at once.
PassBegin ==
  /\ Running("range")
  /\ stack' = ReplaceTop([Top EXCEPT !.snap = DOMAIN graphqlTypes,
                                     !.pc = IF DOMAIN graphqlTypes = {} THEN "reset"
                                            ELSE "pass"])
  /\ UNCHANGED <<graphqlTypes, parentTypes, level, targetType, heap, calls, results, passes,
                 parked, applied, hooks, settings, fault>>

\* The map a range over obj.Fields() goes over is the one Fields() gave when
\* the range began (lines 425, 456), and the map SetDescription indexes is
\* the one Fields() gave it (lines 262-263, 266-267): the map the object
\* had then (rgen).  While the object still has that map, its holder sees
\* what is deleted from it; once a Fields() call has built the object a new
\* map, nothing is deleted from the old one any more and the holder has it
\* as it was left (rmap).
RangeMap(fr, h) == IF fr.rgen = h[fr.cur].gen THEN h[fr.cur].fields ELSE fr.rmap

\* The object id after a call of Fields().  A map that Fields() builds is a
\* new one: it is named by the first number that names no map of the object
\* that a goroutine holds (the map of a range under way, the map
\* SetDescription indexes or has taken a definition from).
FieldsCall(id) ==
  LET held == {stk[Len(stk)].rgen :
                 stk \in {x \in {stack, parked} :
                            /\ x # << >>
                            /\ x[Len(x)].cur = id
                            /\ x[Len(x)].pc \in {"passField", "passDelete", "passLookup",
                                                 "passAdd", "passLog", "index", "fetch",
                                                 "store"}}}
  IN  IF heap[id].init THEN heap[id]
      ELSE [Touch(heap[id]) EXCEPT
              !.gen = CHOOSE n \in 1..3 : /\ n \notin held
                                          /\ \A m \in 1..(n - 1) : m \in held]

\* Fields() is about to be called on the objects ids: where it builds a new
\* map, the top frame of stk that holds the old map (a range under way, from
\* passField to passLog, or SetDescription before it indexes the map) keeps
\* the old one.
KeepRanges(stk, ids, h) ==
  IF /\ stk # << >>
     /\ stk[Len(stk)].pc \in {"passField", "passDelete", "passLookup", "passAdd", "passLog",
                              "index", "fetch"}
     /\ stk[Len(stk)].cur \in ids
     /\ stk[Len(stk)].rgen = h[stk[Len(stk)].cur].gen
     /\ ~h[stk[Len(stk)].cur].init
  THEN [stk EXCEPT ![Len(stk)].rmap = h[stk[Len(stk)].cur].fields]
  ELSE stk

\* After a field of the object in hand the range over its fields goes on.
AfterField(fr) ==
  [fr EXCEPT !.fkey = "", !.fdef = << >>, !.ftype = NoType, !.pc = "passField"]

\* Lines 422-425 and 456, one turn of the range over the registry: it gives
\* an entry it has not given yet, as the entry is now, Fields() of the
\* object is called and the range over its fields begins.  An entry stored
\* after the range over the registry began may be given or not.  Over a map
\* without a field of a stub type, which nobody writes, the range over the
\* fields passes over every entry (lines 426-430, 457-461) and the range
\* over the registry goes on.
PassObject ==
  /\ Running("pass")
  /\ \E k \in DOMAIN graphqlTypes \ Top.seen :
       LET id == graphqlTypes[k].id
           fr == IF StubKeys(heap[id], heap) = {}
                 THEN [Top EXCEPT !.seen = @ \cup {k}]
                 ELSE [Top EXCEPT !.seen = @ \cup {k}, !.cur = id,
                                  !.rgen = FieldsCall(id).gen, !.pc = "passField"]
       IN  /\ heap' = [heap EXCEPT ![id] = FieldsCall(id)]
           /\ parked' = KeepRanges(parked, {id}, heap)
           /\ stack' = ReplaceTop(fr)
  /\ UNCHANGED <<graphqlTypes, parentTypes, level, targetType, calls, results, passes,
                 applied, hooks, settings, fault>>

\* Lines 425-430 and 456-461: the range over the fields gives the next
\* entry of its map, one it has not given yet and that is still there, and
\* passes over those whose type is no stub; when nothing is left the range
\* ends and the range over the registry goes on.
PassField ==
  /\ Running("passField")
  /\ LET m == RangeMap(Top, heap)
         left == {k \in DOMAIN m \ Top.done : reStub(TypeName(m[k].Type, heap)).ok}
     IN  IF left = {}
         THEN stack' = ReplaceTop([Top EXCEPT !.cur = 0, !.rgen = 0, !.rmap = EmptyMap,
                                              !.done = {}, !.pc = "pass"])
         ELSE \E fieldKey \in left :
                stack' = ReplaceTop([Top EXCEPT !.fkey = fieldKey, !.fdef = m[fieldKey],
                                                !.done = @ \cup {fieldKey},
                                                !.pc = "passDelete"])
  /\ UNCHANGED <<graphqlTypes, parentTypes, level, targetType, heap, calls, results, passes,
                 parked, applied, hooks, settings, fault>>

\* Lines 431 and 462: Fields() is called again and the key is deleted from
\* the map it gives, which is the map of the range only as long as no field
\* has been added since the range began.
PassDelete ==
  /\ Running("passDelete")
  /\ heap' = [heap EXCEPT ![Top.cur] = DeleteField(FieldsCall(Top.cur), Top.fkey)]
  /\ stack' = KeepRanges(Goto("passLookup"), {Top.cur}, heap)
  /\ parked' = KeepRanges(parked, {Top.cur}, heap)
  /\ UNCHANGED <<graphqlTypes, parentTypes, level, targetType, calls, results, passes,
                 applied, hooks, settings, fault>>

\* Lines 432-438 and 463-469: getType reads the registry; the error it makes
\* for a name that is not there has the indentation in it (line 332).
PassLookup ==
  /\ Running("passLookup")
  /\ LET typeName == reStub(TypeName(Top.fdef.Type, heap)).word
         kindName == TypeString(Top.fdef.Type, heap)
     IN  IF typeName \in DOMAIN graphqlTypes
         THEN /\ stack' = ReplaceTop([Top EXCEPT
                             !.ftype = getType(graphqlTypes, typeName, kindName),
                             !.pc = "passAdd"])
              /\ fault' = fault
         ELSE IF IndentPanics(TmLevel)
         THEN fault' = "index out of range" /\ stack' = stack
         ELSE fault' = fault /\ stack' = ReplaceTop(AfterField(Top))
  /\ UNCHANGED <<graphqlTypes, parentTypes, level, targetType, heap, calls, results, passes,
                 parked, applied, hooks, settings>>

\* Lines 439-449 and 470-477: the field is added again with the type found.
PassAdd ==
  /\ Running("passAdd")
  /\ heap' = [heap EXCEPT ![Top.cur] =
                AddFieldConfig(@, Top.fkey,
                               Replacement(heap[Top.cur].kind, Top.fkey, Top.fdef, Top.ftype))]
  /\ stack' = Goto("passLog")
  /\ UNCHANGED <<graphqlTypes, parentTypes, level, targetType, calls, results, passes,
                 parked, applied, hooks, settings, fault>>

\* Lines 450-453 and 478-481: the log line of the replacement reads the
\* level.
PassLog ==
  /\ Running("passLog")
  /\ IF IndentPanics(TmLevel)
     THEN fault' = "index out of range" /\ stack' = stack
     ELSE fault' = fault /\ stack' = ReplaceTop(AfterField(Top))
  /\ UNCHANGED <<graphqlTypes, parentTypes, level, targetType, heap, calls, results, passes,
                 parked, applied, hooks, settings>>

\* The range over the registry ends: it has given every entry that was
\* there when it began (no entry is ever deleted).
PassEnd ==
  /\ Running("pass")
  /\ Top.snap \subseteq Top.seen
  /\ stack' = ReplaceTop([Top EXCEPT !.seen = {}, !.snap = {}, !.pc = "reset"])
  /\ UNCHANGED <<graphqlTypes, parentTypes, level, targetType, heap, calls, results, passes,
                 parked, applied, hooks, settings, fault>>

\* The mapper copies of stk keep the map pt that the shared mapper had: the
\* copy the nested frames work on, or the copy being made.
Keep(stk, pt) ==
  IF Len(stk) >= 2 /\ ~stk[2].detached
  THEN [stk EXCEPT ![2].detached = TRUE, ![2].own = pt]
  ELSE IF /\ Len(stk) = 1
          /\ stk[1].pc = "copy"
          /\ ~stk[1].cp.detached
  THEN [stk EXCEPT ![1].cp.detached = TRUE, ![1].cp.own = pt]
  ELSE stk

\* Line 485 and the return: the mapper gets a new, empty parentTypes map (on
\* a copy this changes nothing that is read again).
Reset ==
  /\ Running("reset")
  /\ parentTypes' = IF TmRoot THEN {} ELSE parentTypes
  /\ parked' = IF TmRoot THEN Keep(parked, parentTypes) ELSE parked
  /\ stack' = LeaveStack(Top.res)
  /\ results' = LeaveResults(Top.res, heap)
  /\ UNCHANGED <<graphqlTypes, level, targetType, heap, calls, passes, applied, hooks,
                 settings, fault>>

\* The return of a call whose deferred function ran no pass.
Leave ==
  /\ Running("leave")
  /\ stack' = LeaveStack(Top.res)
  /\ results' = LeaveResults(Top.res, heap)
  /\ UNCHANGED <<graphqlTypes, parentTypes, level, targetType, heap, calls, passes, parked,
                 applied, hooks, settings, fault>>

\* SetDescription begins (lines 259-261, 265, 269-270): the type switch.  A
\* value that is no pointer to an object is logged and the call returns.
DescribeStart(graphqlType, fieldName, description) ==
  /\ fault = ""
  /\ stack = << >>
  /\ settings < MaxConcSettings
  /\ settings' = settings + 1
  /\ stack' = IF IsObjectPointer(graphqlType)
              THEN << [pc |-> "lookup", key |-> << >>, type |-> graphqlType,
                       cur |-> graphqlType.id, rgen |-> 0, rmap |-> EmptyMap,
                       fieldName |-> fieldName, description |-> description,
                       found |-> FALSE] >>
              ELSE << >>
  /\ UNCHANGED <<graphqlTypes, parentTypes, level, targetType, heap, calls, results, passes,
                 parked, applied, hooks, fault>>

\* The callers describe the field Self of what a root call has returned, or
\* of a type that is no object.
Describe ==
  \E t \in Handed, text \in Descriptions : DescribeStart(t, "Self", text)

\* object.Fields(), lines 262 / 266 (pc lookup) and 263 / 267 (pc assign):
\* on the nil pointer a failed root call returned it panics; otherwise it
\* gives the map the object has now, built when needed.
DescribeFields ==
  /\ fault = ""
  /\ stack # << >>
  /\ Top.pc \in {"lookup", "assign"}
  /\ IF Top.type = NoType
     THEN fault' = "nil pointer dereference" /\ UNCHANGED <<heap, stack, parked>>
     ELSE /\ heap' = [heap EXCEPT ![Top.cur] = FieldsCall(Top.cur)]
          /\ parked' = KeepRanges(parked, {Top.cur}, heap)
          /\ stack' = ReplaceTop([Top EXCEPT !.rgen = FieldsCall(Top.cur).gen,
                                             !.pc = IF Top.pc = "lookup" THEN "index"
                                                    ELSE "fetch"])
          /\ fault' = fault
  /\ UNCHANGED <<graphqlTypes, parentTypes, level, targetType, calls, results, passes,
                 applied, hooks, settings>>

\* The map Fields() gave is indexed with fieldName.  Lines 262 / 266 (pc
\* index): without the field the call returns.  Lines 263 / 267 (pc fetch):
\* the entry is the definition to write to, nil when the field is not in
\* the map.
DescribeIndex ==
  /\ fault = ""
  /\ stack # << >>
  /\ Top.pc \in {"index", "fetch"}
  /\ LET found == Top.fieldName \in DOMAIN RangeMap(Top, heap)
     IN  stack' = IF Top.pc = "fetch"
                  THEN ReplaceTop([Top EXCEPT !.found = found, !.rmap = EmptyMap,
                                              !.pc = "store"])
                  ELSE IF found
                  THEN ReplaceTop([Top EXCEPT !.rmap = EmptyMap, !.pc = "assign"])
                  ELSE << >>
  /\ UNCHANGED <<graphqlTypes, parentTypes, level, targetType, heap, calls, results, passes,
                 parked, applied, hooks, settings, fault>>

\* A description is stored in the definition that the map gen of object id
\* has for fieldName.  A range over that map that has the definition in hand
\* and has not read its description yet (lines 446, 475), or has still to
\* give it, has the same definition.
SharedDef(stk, id, gen, fieldName, description) ==
  IF /\ stk # << >>
     /\ stk[Len(stk)].pc \in {"passField", "passDelete", "passLookup", "passAdd", "passLog"}
     /\ stk[Len(stk)].cur = id
     /\ stk[Len(stk)].rgen = gen
  THEN [stk EXCEPT ![Len(stk)] =
          [@ EXCEPT !.fdef = IF /\ stk[Len(stk)].fkey = fieldName
                                /\ stk[Len(stk)].pc \in {"passDelete", "passLookup", "passAdd"}
                             THEN [@ EXCEPT !.Description = description] ELSE @,
                    !.rmap = IF fieldName \in DOMAIN @ \ stk[Len(stk)].done
                             THEN [@ EXCEPT ![fieldName].Description = description] ELSE @]]
  ELSE stk

\* SetDescription, lines 263 / 267: the description is stored through the
\* entry fetched, which panics when the entry is nil.  The definition
\* written is the one of the map that was indexed: the object has it only
\* as long as it has that map and the field is in it.
DescribeStore ==
  /\ Running("store")
  /\ IF Top.found
     THEN /\ heap' = IF /\ heap[Top.cur].gen = Top.rgen
                        /\ Top.fieldName \in DOMAIN heap[Top.cur].fields
                     THEN [heap EXCEPT ![Top.cur].fields[Top.fieldName].Description =
                                         Top.description]
                     ELSE heap
          /\ parked' = SharedDef(parked, Top.cur, Top.rgen, Top.fieldName, Top.description)
          /\ stack' = << >>
          /\ fault' = fault
     ELSE /\ fault' = "nil pointer dereference"
          /\ UNCHANGED <<heap, stack, parked>>
  /\ UNCHANGED <<graphqlTypes, parentTypes, level, targetType, calls, results, passes,
                 applied, hooks, settings>>

\* The maps the next step of the top frame of stk reads or writes: the
\* registry, the in-progress map of the shared mapper, a field-definition
\* map of an object, the map of field configurations of an object (which
\* Fields() reads when it builds a new map and AddFieldConfig writes).  The
\* next turn of the range over the registry calls Fields() on the object of
\* an entry not given yet.
Access(stk, h) ==
  IF stk = << >> THEN {}
  ELSE LET fr == stk[Len(stk)]
           pt == IF Detached(stk) THEN <<"own">> ELSE <<"parentTypes">>
           A(m, w) == [map |-> m, write |-> w]
           fieldsCall(id) == IF h[id].init THEN {} ELSE {A(<<"config", id>>, FALSE)}
           held == {A(<<"fields", fr.cur, fr.rgen>>, FALSE)}
       IN  CASE fr.pc \in {"memo", "range", "passLookup"} -> {A(<<"graphqlTypes">>, FALSE)}
             [] fr.pc = "pass" ->
                  {A(<<"graphqlTypes">>, FALSE)}
                    \cup UNION {fieldsCall(graphqlTypes[k].id) :
                                  k \in DOMAIN graphqlTypes \ fr.seen}
             [] fr.pc = "stub" -> IF fr.kind = "nil" THEN {} ELSE {A(<<"graphqlTypes">>, TRUE)}
             [] fr.pc = "register" ->
                  IF DOMAIN fr.fields = {} THEN {} ELSE {A(<<"graphqlTypes">>, TRUE)}
             [] fr.pc = "cycle" -> {A(pt, FALSE)}
             [] fr.pc \in {"mark", "unmark"} -> {A(pt, TRUE)}
             [] fr.pc \in {"passField", "index", "fetch"} -> held
             [] fr.pc = "passDelete" ->
                  IF h[fr.cur].init THEN {A(<<"fields", fr.cur, h[fr.cur].gen>>, TRUE)}
                  ELSE fieldsCall(fr.cur)
             [] fr.pc = "passAdd" -> {A(<<"config", fr.cur>>, TRUE)}
             [] fr.pc \in {"lookup", "assign"} ->
                  IF fr.type = NoType THEN {} ELSE fieldsCall(fr.cur)
             [] OTHER -> {}

\* The Go runtime ends the program when it finds a map used by two
\* goroutines at once, one of them writing ("fatal error: concurrent map
\* writes", "concurrent map read and map write", "concurrent map iteration
\* and map write"); it does not always find it, and then the accesses take
\* effect one after the other, in either order.  It can find it when the
\* two goroutines are about to use one map, one of them to write it.
MapFault ==
  /\ fault = ""
  /\ \E a \in Access(stack, heap), b \in Access(parked, heap) :
       a.map = b.map /\ a.map # <<"own">> /\ (a.write \/ b.write)
  /\ fault' = "concurrent map access"
  /\ UNCHANGED <<graphqlTypes, parentTypes, level, targetType, heap, stack, calls, results,
                 passes, parked, applied, hooks, settings>>

Switch ==
  /\ fault = ""
  /\ stack # << >> \/ parked # << >>
  /\ stack' = parked
  /\ parked' = stack
  /\ UNCHANGED <<graphqlTypes, parentTypes, level, targetType, heap, calls, results,
                 passes, applied, hooks, settings, fault>>

\* The calls the two goroutines make: GoToGraphqlOutput(Node{}), of a record
\* nested in itself, and GoToGraphqlOutput(Hollow{}), of a record that is not
\* and whose only field is of another record; called alone the second fails
\* and returns a nil pointer.
ConcCalls ==
  { [arg |-> TStruct(<<"Node">>), mode |-> "out"],
    [arg |-> TStruct(<<"Hollow">>), mode |-> "out"] }

\* The steps of the two goroutines.  A goroutine that runs no call begins
\* one, describes a field of a type it has got, or installs a hook of its
\* own (SetTypeReplacer, line 251; SetFieldResolverFinder, line 228) while
\* the other goroutine goes on.
ConcNext ==
  \/ \E c \in ConcCalls : Start(c.arg, c.mode)
  \/ ReadTarget
  \/ Lookup
  \/ LookupLog
  \/ ChooseFields
  \/ CycleCheck
  \/ CycleLog
  \/ MakeStub
  \/ Mark
  \/ RaiseRead
  \/ RaiseWrite
  \/ FieldLog
  \/ CopyField
  \/ FieldStep
  \/ Settle
  \/ EndLog
  \/ Register
  \/ Unmark
  \/ LowerRead
  \/ LowerWrite
  \/ TestLevel
  \/ PassBegin
  \/ PassObject
  \/ PassField
  \/ PassDelete
  \/ PassLookup
  \/ PassAdd
  \/ PassLog
  \/ PassEnd
  \/ Reset
  \/ Leave
  \/ Describe
  \/ DescribeFields
  \/ DescribeIndex
  \/ DescribeStore
  \/ settings < MaxConcSettings /\ SetTypeReplacer("custom")
  \/ settings < MaxConcSettings /\ SetFieldResolverFinder("custom")
  \/ MapFault
  \/ Switch

ConcSpec == Init /\ [][ConcNext]_vars

\* ------------------------------------------------- vocabulary of the claims
Idle == stack = << >>

ObjIds == 1..Len(heap)

\* The registry key an object was made for: a stub is named key+"Stub".
KeyOf(o) == IF o.stub THEN SubSeq(o.name, 1, Len(o.name) - 1) ELSE o.name

\* The struct an object was compiled from and the mode it was compiled in.
ModeOf(o) == IF o.kind = "InputObject" THEN "in" ELSE "out"
StructOf(o) == IF ModeOf(o) = "in" THEN SubSeq(KeyOf(o), 1, Len(KeyOf(o)) - 1) ELSE KeyOf(o)
KeyFor(n, mode) == IF mode = "in" THEN n \o <<"_Input">> ELSE n

IsStubType(t) == t.k = "obj" /\ heap[t.id].stub
Base(t) == [t EXCEPT !.w = << >>]

\* The registered objects that are not stubs.
Canonical == {i \in ObjIds : ~heap[i].stub /\ i \in Registered(graphqlTypes)}

\* The record a root call was made for.
RecordOf(arg) == GoName(IF Kind(arg) = "Ptr" THEN Elem(arg) ELSE arg)

FieldOf(n, name) == CHOOSE f \in {StructFields(n)[i] : i \in 1..Len(StructFields(n))} : f.name = name

\* ------------------------------------------------------------------ claims

\* C1: after the outermost compile call has returned, no field of an object
\* of the registry has a type that is, or wraps, a stub, and every field
\* that was compiled to a stub reference is a field of its object and
\* refers to the canonical object of the record the stub stood for.
C1_NoStubAfterCompile ==
  Idle =>
    \A i \in Registered(graphqlTypes) :
      /\ \A f \in DOMAIN Fields(heap[i]) : ~IsStubType(Fields(heap[i])[f].Type)
      /\ \A f \in DOMAIN heap[i].made :
           IsStubType(heap[i].made[f].Type) =>
             /\ f \in DOMAIN Fields(heap[i])
             /\ KeyOf(heap[heap[i].made[f].Type.id]) \in DOMAIN graphqlTypes
             /\ Base(Fields(heap[i])[f].Type)
                  = graphqlTypes[KeyOf(heap[heap[i].made[f].Type.id])]

\* C2: a second root compile of a record that compiled successfully, in the
\* same target mode, succeeds and returns the instance the first call
\* returned; that instance is the registry's entry for the key, and it is
\* the only object ever made for the key.
C2_SecondCompileSameInstance ==
  \A i, j \in DOMAIN results :
    ( /\ i < j
      /\ RecordOf(results[i].arg) = RecordOf(results[j].arg)
      /\ results[i].mode = results[j].mode
      /\ ~results[i].err )
    => LET key == KeyFor(RecordOf(results[i].arg), results[i].mode)
       IN  /\ ~results[j].err
           /\ results[j].type = results[i].type
           /\ key \in DOMAIN graphqlTypes
           /\ graphqlTypes[key] = results[i].type
           /\ Cardinality({o \in ObjIds : ~heap[o].stub /\ heap[o].name = key}) = 1

\* C2 witness: the self-referential Node has been compiled twice for output,
\* both times with success.
C2_Witness ==
  /\ Idle
  /\ Len(results) >= 2
  /\ RecordOf(results[1].arg) = <<"Node">> /\ RecordOf(results[2].arg) = <<"Node">>
  /\ results[1].mode = "out" /\ results[2].mode = "out"
  /\ ~results[1].err /\ ~results[2].err

\* C3: every root compile call that has been entered returns, also for the
\* records that reach themselves (Node, Tree) or each other (A, B).
C3_Terminates == (stack # << >>) ~> (stack = << >>)

\* C3 witness: a root compile of A, which reaches itself through B, has
\* returned a type.
C3_Witness ==
  /\ Idle
  /\ \E i \in DOMAIN results : RecordOf(results[i].arg) = <<"A">> /\ ~results[i].err
  /\ \E o \in ObjIds : heap[o].stub /\ KeyOf(heap[o]) \in {<<"A">>, <<"A", "_Input">>}

\* C4: after the root call has returned, every field that was compiled to
\* a stub reference has the canonical type under exactly the wrappers the
\* stub reference had: stub, List(stub), NonNull(stub), NonNull(List(stub))
\* have become canonical, List(canonical), NonNull(canonical),
\* NonNull(List(canonical)).
C4_PatchKeepsWrapping ==
  Idle =>
    \A i \in Registered(graphqlTypes) :
      \A f \in DOMAIN heap[i].made :
        IsStubType(heap[i].made[f].Type) =>
          /\ f \in DOMAIN Fields(heap[i])
          /\ Fields(heap[i])[f].Type.w = heap[i].made[f].Type.w
          /\ ~IsStubType(Fields(heap[i])[f].Type)
          /\ heap[Fields(heap[i])[f].Type.id].name = KeyOf(heap[heap[i].made[f].Type.id])

\* C5: once a registry key holds a type instance, no step of any compile
\* call removes the entry or stores a different instance under the key.
C5_EntryNeverReplaced ==
  [][\A k \in DOMAIN graphqlTypes :
        k \in DOMAIN graphqlTypes' /\ graphqlTypes'[k] = graphqlTypes[k]]_vars

\* What the claims call a field that survives classification: its type is
\* known at once, or it is a named record that is being compiled (a cycle)
\* or has, in its turn, a field that survives.
ValidRecord(arg) ==
  /\ arg # NilArg
  /\ Kind(IF Kind(arg) = "Ptr" THEN Elem(arg) ELSE arg) = "Struct"
  /\ RecordOf(arg) # << >>

RECURSIVE Mappable(_, _, _)
Mappable(r, n, seen) ==
  \/ n \in seen
  \/ \E i \in DOMAIN StructFields(n) :
       LET c == Classify(r, StructFields(n)[i])
       IN  \/ ~c.call
           \/ ValidRecord(c.arg) /\ Mappable(r, RecordOf(c.arg), seen \cup {n})

Surviving(r, n) ==
  {StructFields(n)[i].name : i \in
     {j \in DOMAIN StructFields(n) :
        LET c == Classify(r, StructFields(n)[j])
        IN  \/ ~c.call
            \/ ValidRecord(c.arg) /\ Mappable(r, RecordOf(c.arg), {n})}}

\* The surviving fields of a record, by the replacer in force.
SurvivingTable == [r \in TypeReplacers |-> [n \in StructNames |-> Surviving(r, n)]]

LastResult == results[Len(results)]

\* C6: a root compile of a record with no mappable field returns an error,
\* and when it has returned the registry has no entry under the key of
\* that record.
C6_EmptyRecordNotRegistered ==
  (Idle /\ results # << >> /\ ValidRecord(LastResult.arg)
        /\ SurvivingTable[LastResult.replacer][RecordOf(LastResult.arg)] = {})
  => /\ LastResult.err
     /\ KeyFor(RecordOf(LastResult.arg), LastResult.mode) \notin DOMAIN graphqlTypes

\* C7: a field whose classification fails is the only thing omitted: every
\* record whose field loop has ended holds exactly its surviving fields,
\* every object was made with exactly the surviving fields of its record,
\* and a root call that was entered for a record with a surviving field
\* returns a type.
C7_OnlyFailedFieldOmitted ==
  /\ \A d \in DOMAIN stack :
       LoopDone(stack[d]) => DOMAIN stack[d].fields = SurvivingTable[typeReplacer][stack[d].sname]
  /\ \A o \in ObjIds :
       ~heap[o].stub => DOMAIN heap[o].made = SurvivingTable[heap[o].replacer][StructOf(heap[o])]
  /\ \A r \in DOMAIN results :
       (results[r].entered /\ SurvivingTable[results[r].replacer][RecordOf(results[r].arg)] # {})
         => ~results[r].err

\* C7 witness: Parent, whose field Nothing is of the record Empty, which
\* has no field, has been compiled: the object has the field Children only.
C7_Witness ==
  /\ Idle
  /\ \E o \in Canonical :
       /\ StructOf(heap[o]) = <<"Parent">>
       /\ DOMAIN Fields(heap[o]) = {"Children"}
  /\ \E r \in DOMAIN results :
       RecordOf(results[r].arg) = <<"Parent">> /\ results[r].entered /\ ~results[r].err

\* C8: when no compile call is running, every object of the registry has
\* at least one field.
C8_RegisteredObjectHasField ==
  Idle => \A i \in Registered(graphqlTypes) : DOMAIN Fields(heap[i]) # {}

StripNonNull(t) == IF t.w # << >> /\ Head(t.w) = "N" THEN [t EXCEPT !.w = Tail(@)] ELSE t
IsSequence(f) == Kind(IF Kind(f.type) = "Ptr" THEN Elem(f.type) ELSE f.type) = "Slice"

\* C9: a field whose replaceTypeWith name the type replacer resolves to a
\* record is compiled to that record's type, in a List when the field is a
\* slice, whatever the kind the field is declared with.
C9_SubstitutedTypeUsed ==
  Idle =>
    \A o \in Canonical :
      \A i \in DOMAIN StructFields(StructOf(heap[o])) :
        LET f == StructFields(StructOf(heap[o]))[i]
            other == GetType(heap[o].replacer, f.replace)
            key == KeyFor(RecordOf(other), ModeOf(heap[o]))
        IN  (other # NoGoType /\ ValidRecord(other) /\ key \in DOMAIN graphqlTypes)
            => /\ f.name \in DOMAIN Fields(heap[o])
               /\ StripNonNull(Fields(heap[o])[f.name].Type)
                    = IF IsSequence(f) THEN NewList(graphqlTypes[key]) ELSE graphqlTypes[key]

\* C10: a compiled field is wrapped in NonNull exactly when it is declared
\* as a pointer and tagged required:"true"; on a field that is not a
\* pointer the tag changes nothing: two fields of one record with the same
\* declared type have the same compiled type, tagged or not.
C10_RequiredOnlyOnPointers ==
  \A o \in ObjIds :
    ~heap[o].stub =>
      \A i, j \in DOMAIN StructFields(StructOf(heap[o])) :
        LET f == StructFields(StructOf(heap[o]))[i]
            g == StructFields(StructOf(heap[o]))[j]
            F == Fields(heap[o])
        IN  /\ f.name \in DOMAIN F =>
                 ( (F[f.name].Type.w # << >> /\ Head(F[f.name].Type.w) = "N")
                     <=> (Kind(f.type) = "Ptr" /\ f.required = "true") )
            /\ ( /\ f.name \in DOMAIN F /\ g.name \in DOMAIN F
                 /\ f.type = g.type /\ f.replace = g.replace
                 /\ Kind(f.type) # "Ptr" )
               => F[f.name].Type = F[g.name].Type

\* C10 witness: Req has been compiled: its pointer field P, tagged
\* required:"true", is NonNull(Int), and Q, an int with the same tag, is Int
\* like the untagged S.
C10_Witness ==
  /\ Idle
  /\ \E o \in Canonical :
       /\ StructOf(heap[o]) = <<"Req">>
       /\ {"P", "Q", "R", "S"} \subseteq DOMAIN Fields(heap[o])
       /\ Fields(heap[o])["P"].Type = NewNonNull(Scalar("Int"))
       /\ Fields(heap[o])["Q"].Type = Scalar("Int")
       /\ Fields(heap[o])["S"].Type = Scalar("Int")
       /\ Fields(heap[o])["R"].Type = Scalar("Int")

KindFor(mode) == IF mode = "in" THEN "InputObject" ELSE "Object"

\* C11: the type goToGraphqlType gives a root call is of the kind of the
\* call's target mode (an output compile is never given a type that an
\* input compile registered, and the reverse), and an object's fields
\* refer to objects of its own kind only.
C11_OutputAndInputKeptApart ==
  /\ \A r \in DOMAIN results :
       results[r].raw.k = "obj"
         => heap[results[r].raw.id].kind = KindFor(results[r].mode)
  /\ \A o \in ObjIds : \A f \in DOMAIN heap[o].made :
       heap[o].made[f].Type.k = "obj"
         => heap[heap[o].made[f].Type.id].kind = heap[o].kind

\* C13: a root call whose argument is nil, is not a struct after one
\* pointer has been removed, or is a struct without a name, returns an
\* error and no type, and leaves the registry, the in-progress set and the
\* level as they were.
C13_RejectedArgumentChangesNothing ==
  [][ (Len(results') > Len(results) /\ ~ValidRecord(results'[Len(results')].arg))
        => /\ results'[Len(results')].err
           /\ results'[Len(results')].type = NoType
           /\ graphqlTypes' = graphqlTypes
           /\ parentTypes' = parentTypes
           /\ level' = level ]_vars

\* C13 witness: after a compile that registered a type, a root call with a
\* rejected argument has returned its error.
C13_Witness ==
  /\ Idle
  /\ graphqlTypes # EmptyMap
  /\ Len(results) > 1
  /\ ~ValidRecord(LastResult.arg)
  /\ LastResult.err
  /\ ~results[1].err

\* The structs a struct refers to through its fields, and the structs that
\* are reachable from themselves.
NestedRecords(n) ==
  UNION {{RecordOf(ClassTable[r][n][i].arg) :
            i \in {j \in DOMAIN ClassTable[r][n] : ClassTable[r][n][j].call}} :
         r \in TypeReplacers}
    \cap StructNames

RECURSIVE ReachFrom(_, _)
ReachFrom(frontier, seen) ==
  LET new == UNION {NestedRecords(n) : n \in frontier} \ seen
  IN  IF new = {} THEN seen ELSE ReachFrom(new, seen \cup new)

SelfReferential == {n \in StructNames : n \in ReachFrom({n}, {})}

\* C12: while no other root call is in progress on the mapper, the cycle
\* check (line 394) finds in the in-progress map only a record that a
\* caller in the running call chain is compiling (a record reachable from
\* itself), so that a stub is made for such a record only; with two calls
\* in progress this is not so (the witness).
C12_StubOnlyForOwnChainWhenSerialized ==
  [][ ( /\ parked = << >>
        /\ stack # << >> /\ Top.pc = "cycle"
        /\ Len(stack') = Len(stack) /\ stack'[Len(stack')].pc = "stubLog" )
        => Top.key \in {stack[d].key : d \in 1..(Len(stack) - 1)} ]_vars

\* C12 witness: two root calls have run interleaved and a stub stands for a
\* record that is not reachable from itself; it was returned by a root
\* call or is the type of a field.
C12_Witness ==
  \E o \in ObjIds :
    /\ heap[o].stub
    /\ StructOf(heap[o]) \in StructNames \ SelfReferential
    /\ \/ \E r \in DOMAIN results : results[r].raw = ObjT(o)
       \/ \E q \in ObjIds : \E f \in DOMAIN heap[q].made :
            heap[q].made[f].Type.k = "obj" /\ heap[q].made[f].Type.id = o

\* The width in bits of an integer kind in a build whose int is word bits.
IntegerBits(kind, word) ==
  CASE kind \in {"Int8", "Uint8"} -> 8
    [] kind \in {"Int16", "Uint16"} -> 16
    [] kind \in {"Int32", "Uint32"} -> 32
    [] kind \in {"Int64", "Uint64"} -> 64
    [] OTHER -> word

SignedKinds == {"Int", "Int8", "Int16", "Int32", "Int64"}
UnsignedKinds == {"Uint", "Uint8", "Uint16", "Uint32", "Uint64", "Uintptr"}

ScalarApplications == {i \in DOMAIN applied : applied[i].fn = "kindToGraphqlScalar"}

\* C14 as stated: Boolean for bool; Int for the signed and unsigned
\* integers of at most 32 bits; Int64 for the 64-bit signed and Uint64 for
\* the 64-bit unsigned integers; Float for the floats; String for string
\* and for every other kind.
C14_ScalarByWidth ==
  \A i \in ScalarApplications :
    LET kind == applied[i].kind
        bits == IntegerBits(kind, applied[i].word)
    IN  applied[i].out =
          CASE kind = "Bool" -> Scalar("Boolean")
            [] kind \in SignedKinds \cup UnsignedKinds /\ bits <= 32 -> Scalar("Int")
            [] kind \in SignedKinds /\ bits = 64 -> Scalar("Int64")
            [] kind \in UnsignedKinds /\ bits = 64 -> Scalar("Uint64")
            [] kind \in {"Float32", "Float64"} -> Scalar("Float")
            [] OTHER -> Scalar("String")

\* C14 amended: the scalar is decided by the kind alone: Int for int, uint
\* and the sized integers of at most 32 bits, whatever the size of int and
\* uint in the build; Int64 for int64; Uint64 for uint64; Float for the
\* floats; String for string and for every other kind, uintptr included.
C14_ScalarByKind ==
  \A i \in ScalarApplications :
    LET kind == applied[i].kind
    IN  /\ kind = "Bool" => applied[i].out = Scalar("Boolean")
        /\ kind \in {"Int", "Int8", "Int16", "Int32", "Uint", "Uint8", "Uint16", "Uint32"}
             => applied[i].out = Scalar("Int")
        /\ kind = "Int64" => applied[i].out = Scalar("Int64")
        /\ kind = "Uint64" => applied[i].out = Scalar("Uint64")
        /\ kind \in {"Float32", "Float64"} => applied[i].out = Scalar("Float")
        /\ kind \in {"String", "Uintptr", "Complex64", "Complex128", "Array", "Chan",
                     "Func", "Interface", "Map", "Ptr", "Slice", "Struct", "UnsafePointer"}
             => applied[i].out = Scalar("String")

\* C14 witness: the mapper has been applied to uint64 and has given Uint64.
C14_Witness ==
  \E i \in ScalarApplications :
    applied[i].kind = "Uint64" /\ applied[i].out = Scalar("Uint64")

FieldApplications == {i \in DOMAIN applied : applied[i].fn = "goFieldToGraphqlType"}

\* The fields declared with an interface type (a pointer removed) and
\* without a substitution.
IsInterfaceField(a) ==
  /\ Kind(IF Kind(a.field.type) = "Ptr" THEN Elem(a.field.type) ELSE a.field.type) = "Interface"
  /\ GetType(a.replacer, a.field.replace) = NoGoType

\* C15 as stated: an interface field without methods is Any; an interface
\* field with a method is what compiling the return type of its first
\* method gives.
C15_InterfaceByFirstMethod ==
  \A i \in FieldApplications :
    LET f == applied[i].field
        t == IF Kind(f.type) = "Ptr" THEN Elem(f.type) ELSE f.type
    IN  IsInterfaceField(applied[i]) =>
          applied[i].out = IF NumMethod(t) = 0 THEN Immediate(Scalar("Any"))
                           ELSE Nested(MethodOut(t), FALSE)

\* C15 amended: an interface field is Any, with or without methods; no
\* type is compiled for it.
C15_InterfaceIsAny ==
  \A i \in FieldApplications :
    IsInterfaceField(applied[i]) => applied[i].out = Immediate(Scalar("Any"))

\* C15 witness: a field of the interface type Shaper, which has a method,
\* has been classified as Any.
C15_Witness ==
  \E i \in FieldApplications :
    /\ applied[i].field.type = TShaper
    /\ applied[i].field.replace = << >>
    /\ applied[i].out = Immediate(Scalar("Any"))

\* C16 as stated: while a record is being compiled (a frame of the running
\* call has its key) the registry has no entry under that key, and a stub
\* made for the record is registered under the key followed by "Stub", the
\* stub's name.  The code stores the stub under the key itself (lines 405,
\* 409), so this fails as soon as a record nested in itself gets its stub.
C16_StubUnderItsOwnKey ==
  /\ \A d \in DOMAIN stack : stack[d].key \notin DOMAIN graphqlTypes
  /\ \A o \in ObjIds :
       (heap[o].stub /\ \E d \in DOMAIN stack : stack[d].key = KeyOf(heap[o]))
         => /\ heap[o].name \in DOMAIN graphqlTypes
            /\ graphqlTypes[heap[o].name] = ObjT(o)

\* C17 as stated: every root call has run the patch pass exactly once, and
\* no pass has run while the call is in progress.
C17_EveryRootCallOnePass ==
  /\ \A r \in DOMAIN results : results[r].passes = 1
  /\ stack # << >> => passes = 0

\* C17 amended: a root call that entered the compilation has run the patch
\* pass exactly once, a root call that returned from the prologue (rejected
\* argument, memo hit) has run none, and no pass has run while the call is
\* in progress.
C17_EnteredRootCallOnePass ==
  /\ \A r \in DOMAIN results :
       results[r].passes = IF results[r].entered THEN 1 ELSE 0
  /\ stack # << >> => passes = 0

\* C17 witness: the root call for Parent, which compiled Child in a nested
\* call, has returned after one patch pass.
C17_Witness ==
  /\ Idle
  /\ \E r \in DOMAIN results :
       /\ RecordOf(results[r].arg) = <<"Parent">>
       /\ results[r].entered /\ ~results[r].err
       /\ results[r].passes = 1
       /\ KeyFor(<<"Child">>, results[r].mode) \in DOMAIN graphqlTypes

\* Field definition d is the field it was made as (SetDescription may have
\* given it another description).
AsMade(d, made) == [d EXCEPT !.Description = made.Description] = made

\* C18: when no call is running, a field whose type name matches the stub
\* pattern while the registry has no type under the base name is in its
\* object as it was made.
C18_UnresolvedFieldStays ==
  Idle =>
    \A i \in Registered(graphqlTypes) :
      \A f \in DOMAIN heap[i].made :
        LET words == reStub(TypeName(heap[i].made[f].Type, heap))
        IN  (words.ok /\ words.word \notin DOMAIN graphqlTypes)
              => /\ f \in DOMAIN Fields(heap[i])
                 /\ AsMade(Fields(heap[i])[f], heap[i].made[f])

\* C19: a request for a record whose key is in the registry, made by a root
\* call or by the field loop of a running call, gets the registered type
\* and changes nothing: registry, in-progress set, level and objects stay
\* as they are, no call is entered and no patch pass runs.
C19_MemoHitDoesNothingElse ==
  [][ /\ ( /\ stack = << >>
           /\ Len(results') > Len(results)
           /\ ValidRecord(results'[Len(results')].arg)
           /\ KeyFor(RecordOf(results'[Len(results')].arg), results'[Len(results')].mode)
                \in DOMAIN graphqlTypes )
         => /\ results'[Len(results')].raw =
                 graphqlTypes[KeyFor(RecordOf(results'[Len(results')].arg),
                                     results'[Len(results')].mode)]
            /\ ~results'[Len(results')].entered
            /\ results'[Len(results')].passes = 0
            /\ stack' = << >>
            /\ UNCHANGED <<graphqlTypes, parentTypes, level, heap>>
      /\ ( /\ stack # << >>
           /\ ~LoopDone(Top)
           /\ TopClass.call
           /\ ValidRecord(TopClass.arg)
           /\ KeyFor(RecordOf(TopClass.arg), ChildMode) \in DOMAIN graphqlTypes )
         => /\ Len(stack') = Len(stack)
            /\ stack'[Len(stack)].i = Top.i + 1
            /\ TopField.name \in DOMAIN stack'[Len(stack)].fields
            /\ Base(stack'[Len(stack)].fields[TopField.name].Type)
                 = graphqlTypes[KeyFor(RecordOf(TopClass.arg), ChildMode)]
            /\ UNCHANGED <<graphqlTypes, parentTypes, level, heap, passes>> ]_vars

\* C19 witness: a second root call for a registered record has returned the
\* type of the first without being entered.
C19_Witness ==
  /\ Idle
  /\ Len(results) > 1
  /\ results[1].entered /\ ~results[1].err
  /\ ~LastResult.entered /\ ~LastResult.err
  /\ LastResult.raw = results[1].type
  /\ LastResult.passes = 0

\* C20: when no root call is running, the in-progress set is empty and the
\* level is 0, whether the calls returned a type or an error.
C20_IdleMapperIsClean ==
  Idle => parentTypes = {} /\ level = 0

\* C20 witness: an entered root call has returned an error and another has
\* returned a type.
C20_Witness ==
  /\ Idle
  /\ \E r \in DOMAIN results : results[r].entered /\ results[r].err
  /\ \E r \in DOMAIN results : results[r].entered /\ ~results[r].err
  /\ parentTypes = {} /\ level = 0

\* ------------------------------------------------------------------- C21
\* The fields of object i whose type the patch pass has replaced: present
\* when the object was made and now, with another type.
ReplacedFields(i) ==
  {f \in DOMAIN heap[i].made \cap DOMAIN Fields(heap[i]) :
     Fields(heap[i])[f].Type # heap[i].made[f].Type}

\* C21: a field the patch pass replaces differs from the field that was in
\* its place in its type only: in the step that runs the pass, an output
\* field whose type has changed keeps its name, description, resolver and
\* deprecation reason, an input field its name, description and default
\* value.
C21_ReplacedFieldKeepsMetadata ==
  [][(stack # << >> /\ passes' = passes + 1) =>
       LET before == FinishedHeap(Top, heap)
       IN  \A i \in 1..Len(before) :
             \A f \in DOMAIN Fields(before[i]) \cap DOMAIN Fields(heap'[i]) :
               LET old == Fields(before[i])[f]
                   new == Fields(heap'[i])[f]
               IN  new.Type # old.Type =>
                     /\ new.Name = old.Name
                     /\ new.Description = old.Description
                     /\ IF before[i].kind = "InputObject"
                        THEN /\ DOMAIN new = {"Name", "Type", "DefaultValue", "Description"}
                             /\ new.DefaultValue = old.DefaultValue
                        ELSE /\ DOMAIN new = {"Name", "Type", "Description", "Resolve",
                                              "DeprecationReason"}
                             /\ new.Resolve = old.Resolve
                             /\ new.DeprecationReason = old.DeprecationReason]_vars

\* An output field that carries a description and a resolver and an input
\* field that carries a description have been replaced.
C21_Witness ==
  /\ Idle
  /\ \E i \in ObjIds : \E f \in ReplacedFields(i) :
        /\ heap[i].kind = "Object"
        /\ heap[i].made[f].Resolve # "nil"
        /\ heap[i].made[f].Description # ""
        /\ Base(Fields(heap[i])[f].Type) = ObjT(i)
  /\ \E i \in ObjIds : \E f \in ReplacedFields(i) :
        /\ heap[i].kind = "InputObject"
        /\ heap[i].made[f].Description # ""

\* ------------------------------------------------------------------- C22
\* The declared type of a field with one pointer level removed.
Declared(f) == IF Kind(f.type) = "Ptr" THEN Elem(f.type) ELSE f.type

\* The objects compiled from a record (not stubs), the declaration of a
\* field such an object was made with, and the type the field was made
\* with, a NonNull wrapper removed.
Compiled == {i \in ObjIds : ~heap[i].stub}
DeclOf(i, name) == FieldOf(StructOf(heap[i]), name)
MadeType(i, name) == StripNonNull(heap[i].made[name].Type)

\* The type the replacer in force when object i was compiled gives for the
\* substitution name of f (NoGoType: none).
Substitute(i, f) == GetType(heap[i].replacer, f.replace)

\* The fields declared as a sequence, without a substitution that resolves.
IsSequenceField(i, f) == Kind(Declared(f)) = "Slice" /\ Substitute(i, f) = NoGoType

SpecialTypes == {TimeType, ObjectIDType}

\* The dedicated scalar of a special type.
Dedicated(t) == IF t = TimeType THEN Scalar("DateTime") ELSE Scalar("ObjectID")

\* Type t is what a single field of the Go type e compiles to: the dedicated
\* scalar of a special type, an object standing for the record e, Any for
\* an interface, the scalar of the primitive-kind table otherwise.
IsTypeOfElement(t, e) ==
  CASE e \in SpecialTypes -> t = Dedicated(e)
    [] Kind(e) = "Struct" -> t.k = "obj" /\ t.w = << >> /\ StructOf(heap[t.id]) = GoName(e)
    [] Kind(e) = "Interface" -> t = Scalar("Any")
    [] OTHER -> t = kindToGraphqlScalar(Kind(e))

\* C22: a sequence field is compiled to the list of what a single field of
\* the element type compiles to: the dedicated scalar for a timestamp or a
\* binary identifier, the compiled record for a record, the scalar of the
\* primitive-kind table otherwise.
C22_SequenceOfElementClassification ==
  \A i \in Compiled : \A name \in DOMAIN heap[i].made :
    IsSequenceField(i, DeclOf(i, name)) =>
      /\ MadeType(i, name).w # << >>
      /\ Head(MadeType(i, name).w) = "L"
      /\ IsTypeOfElement([MadeType(i, name) EXCEPT !.w = Tail(@)],
                         Elem(Declared(DeclOf(i, name))))

\* ------------------------------------------------------------------- C23
\* C23 as stated: every field whose type, one pointer level removed, is
\* the timestamp type or the binary identifier type is compiled to the
\* dedicated scalar, not to a record and not through the primitive-kind
\* table.
C23_SpecialTypeIsDedicatedScalar ==
  \A i \in Compiled : \A n \in DOMAIN StructFields(StructOf(heap[i])) :
    LET f == StructFields(StructOf(heap[i]))[n]
    IN  Declared(f) \in SpecialTypes =>
          /\ f.name \in DOMAIN heap[i].made
          /\ MadeType(i, f.name) = Dedicated(Declared(f))

\* C23 amended: the same, for the fields that carry no substitution name
\* that the TypeReplacer resolves.
C23_SpecialTypeWithoutSubstitution ==
  \A i \in Compiled : \A n \in DOMAIN StructFields(StructOf(heap[i])) :
    LET f == StructFields(StructOf(heap[i]))[n]
    IN  (Declared(f) \in SpecialTypes /\ Substitute(i, f) = NoGoType) =>
          /\ f.name \in DOMAIN heap[i].made
          /\ MadeType(i, f.name) = Dedicated(Declared(f))

\* C23 witness: Stamp has been compiled: its timestamp, its pointer to a
\* timestamp and its binary identifier are DateTime, DateTime and ObjectID,
\* and no record Time was compiled for them.
C23_Witness ==
  /\ Idle
  /\ \E i \in Compiled :
        /\ StructOf(heap[i]) = <<"Stamp">>
        /\ heap[i].made["At"].Type = Scalar("DateTime")
        /\ heap[i].made["PAt"].Type = Scalar("DateTime")
        /\ heap[i].made["Id"].Type = Scalar("ObjectID")

\* ------------------------------------------------------------------- C24
\* The fields declared with a special type that carry a substitution name
\* resolving to another record type.
IsSubstitutedSpecial(i, f) ==
  /\ Declared(f) \in SpecialTypes
  /\ Substitute(i, f) # NoGoType
  /\ Substitute(i, f) \notin SpecialTypes

\* C24 as stated: a special type wins over a substitution: such a field is
\* compiled to the dedicated scalar of its declared type.
C24_SpecialBeforeSubstitution ==
  \A i \in Compiled : \A n \in DOMAIN StructFields(StructOf(heap[i])) :
    LET f == StructFields(StructOf(heap[i]))[n]
    IN  IsSubstitutedSpecial(i, f) =>
          /\ f.name \in DOMAIN heap[i].made
          /\ MadeType(i, f.name) = Dedicated(Declared(f))

\* C24 amended: the substitution is decided first: the test for the special
\* types is made on the substituted type when the TypeReplacer resolves the
\* name and on the declared type otherwise, so a field is compiled to a
\* dedicated scalar exactly when that type is special, and a field declared
\* with a special type and substituted by another record type is not.
C24_SubstitutionBeforeSpecial ==
  \A i \in Compiled : \A n \in DOMAIN StructFields(StructOf(heap[i])) :
    LET f == StructFields(StructOf(heap[i]))[n]
        t == IF Substitute(i, f) # NoGoType THEN Substitute(i, f) ELSE Declared(f)
    IN  /\ t \in SpecialTypes =>
              /\ f.name \in DOMAIN heap[i].made
              /\ MadeType(i, f.name) = Dedicated(t)
        /\ (t \notin SpecialTypes /\ f.name \in DOMAIN heap[i].made) =>
              MadeType(i, f.name) \notin {Dedicated(s) : s \in SpecialTypes}

\* C24 witness: Stamp has been compiled with a replacer that knows Other:
\* its timestamp field substituted by Other is the object of the record
\* Other, its plain timestamp field is DateTime.
C24_Witness ==
  /\ Idle
  /\ \E i \in Compiled :
        /\ StructOf(heap[i]) = <<"Stamp">>
        /\ Substitute(i, DeclOf(i, "AtSub")) = TStruct(<<"Other">>)
        /\ heap[i].made["AtSub"].Type.k = "obj"
        /\ StructOf(heap[heap[i].made["AtSub"].Type.id]) = <<"Other">>
        /\ heap[i].made["At"].Type = Scalar("DateTime")

\* ------------------------------------------------------------------- C25
\* The resolver the finder has for a substitution name alone and for a
\* declared type name alone ("nil": none).
ForSubstitution(finder, name) == GetResolver(finder, << >>, name)
ForDeclaredType(finder, name) == GetResolver(finder, name, << >>)

\* The resolver of the claim for the declaration f: the one for the
\* substitution name when there is one, otherwise the one for the name of
\* the declared type, otherwise none.
ExpectedResolver(finder, f) ==
  IF ForSubstitution(finder, f.replace) # "nil" THEN ForSubstitution(finder, f.replace)
  ELSE ForDeclaredType(finder, fieldType(f.type))

\* Object i was made with the resolvers of the claim: the finder was asked
\* once for each field it was made with, and each field carries the
\* expected resolver.
ResolversAttached(i) ==
  /\ heap[i].asked = Cardinality(DOMAIN heap[i].made)
  /\ \A name \in DOMAIN heap[i].made :
        LET f == FieldOf(StructOf(heap[i]), name)
            d == heap[i].made[name]
        IN  /\ "Resolve" \in DOMAIN d
            /\ d.Resolve = ExpectedResolver(heap[i].finder, f)
            /\ d.Resolve = GetResolver(heap[i].finder, fieldType(f.type), f.replace)

\* C25 as stated: every compiled field, of an output or an input object,
\* carries the resolver the finder gives (substitution name first, then
\* declared type name), and the finder is asked once for every field that
\* survives classification.
C25_ResolverForEveryField ==
  \A i \in Compiled : ResolversAttached(i)

\* C25 amended: this holds of the fields of output objects; the fields of
\* an input object carry no resolver and the finder is not asked for them.
C25_ResolverForOutputFields ==
  \A i \in Compiled :
    IF heap[i].kind = "Object" THEN ResolversAttached(i)
    ELSE /\ heap[i].asked = 0
         /\ \A name \in DOMAIN heap[i].made : "Resolve" \notin DOMAIN heap[i].made[name]

\* C25 witness: an output field for which the finder knows the substitution
\* name and the declared type name carries the resolver of the substitution
\* name; an input field for which the finder has a resolver carries none.
C25_Witness ==
  /\ Idle
  /\ \E i \in Compiled : \E name \in DOMAIN heap[i].made :
        LET f == FieldOf(StructOf(heap[i]), name)
        IN  /\ heap[i].kind = "Object"
            /\ ForSubstitution(heap[i].finder, f.replace) # "nil"
            /\ ForDeclaredType(heap[i].finder, fieldType(f.type)) # "nil"
            /\ ForDeclaredType(heap[i].finder, fieldType(f.type))
                 # ForSubstitution(heap[i].finder, f.replace)
            /\ heap[i].made[name].Resolve = ForSubstitution(heap[i].finder, f.replace)
  /\ \E i \in Compiled : \E name \in DOMAIN heap[i].made :
        /\ heap[i].kind = "InputObject"
        /\ ExpectedResolver(heap[i].finder, FieldOf(StructOf(heap[i]), name)) # "nil"

\* ------------------------------------------------------------------- C26
\* The type t, read in heap h, is a stub whose name leads the pass to the
\* registry key key.
StandsFor(t, key, h) ==
  /\ t.k = "obj"
  /\ h[t.id].stub
  /\ reStub(TypeName(t, h)).ok
  /\ reStub(TypeName(t, h)).word = key

\* A step in which a root call ends and its patch pass runs: fr is the
\* frame of the call.  The registry the pass reads holds the root record's
\* canonical type under the record's key and every record compiled so far
\* under its name, and in every registered object each field whose stub
\* stands for the root record has got the root's canonical type.
PassFindsRoot(fr) ==
  LET before == FinishedHeap(fr, heap)
      reg == graphqlTypes'
  IN  /\ \A i \in 1..Len(heap') :
            ~heap'[i].stub => /\ heap'[i].name \in DOMAIN reg
                              /\ reg[heap'[i].name] = ObjT(i)
      /\ DOMAIN fr.fields # {} =>
            /\ fr.key \in DOMAIN reg
            /\ reg[fr.key] = ObjT(Len(before))
            /\ ~heap'[Len(before)].stub
            /\ heap'[Len(before)].made = fr.fields
            /\ \A i \in Registered(reg) : \A name \in DOMAIN Fields(before[i]) :
                  StandsFor(Fields(before[i])[name].Type, fr.key, before) =>
                    /\ name \in DOMAIN Fields(heap'[i])
                    /\ Base(Fields(heap'[i])[name].Type) = reg[fr.key]

\* C26: whenever the patch pass of a root call runs, the canonical type of
\* the root record and of every nested record that compiled is already in
\* the registry, and a stub that stands for the root record finds it.
C26_RootRegisteredBeforePass ==
  [][(stack # << >> /\ passes' = passes + 1) => PassFindsRoot(Top)]_vars

\* C26 witness: a root call for A has ended; the nested record B was
\* compiled with a stub for A in its field ToA, and the pass has put the
\* canonical type of A there.
C26_Witness ==
  /\ Idle
  /\ \E a, b \in Canonical :
        /\ heap[a].name = <<"A">> /\ heap[b].name = <<"B">>
        /\ LastResult.arg = TStruct(<<"A">>) /\ LastResult.type = ObjT(a)
        /\ IsStubType(heap[b].made["ToA"].Type)
        /\ Fields(heap[b])["ToA"].Type = NewNonNull(ObjT(a))

\* ------------------------------------------------------------------- C27
\* C27: the patch pass changes only the fields whose type is a stub made by
\* the cycle check: when no call runs, every field that a registered object
\* was made with and whose type is not such a stub (the canonical type of
\* a record named PayStub, for one) is still there, as it was made.
C27_OnlyStubFieldsChange ==
  Idle =>
    \A i \in Canonical : \A name \in DOMAIN heap[i].made :
      ~IsStubType(heap[i].made[name].Type) =>
        /\ name \in DOMAIN Fields(heap[i])
        /\ AsMade(Fields(heap[i])[name], heap[i].made[name])

\* ------------------------------------------------------------------- C28
\* A root call ends in this step with an error.
RootCallFails ==
  /\ Len(results') = Len(results) + 1
  /\ results'[Len(results')].err

\* C28: a root call that returns an error leaves the registry as the call
\* found it, with the same keys and the same instances: no nested record
\* and no stub has been added.
C28_FailedRootCallKeepsRegistry ==
  [][RootCallFails =>
       graphqlTypes' = IF stack = << >> THEN graphqlTypes ELSE stack[1].before]_vars

\* C28 witness: a root call for Hollow, whose only field is a nested record
\* without fields, has been entered on a registry that was not empty and
\* has returned an error.
C28_Witness ==
  /\ Idle
  /\ Len(results) = 2
  /\ ~results[1].err
  /\ results[2].arg = TStruct(<<"Hollow">>)
  /\ results[2].entered
  /\ results[2].err
  /\ DOMAIN graphqlTypes # {}

\* ------------------------------------------------------------------- C29
\* C29: with root calls made one at a time, no root call gives its caller a
\* stub, whatever was compiled before: the type goToGraphqlType hands to
\* the root function and the type the root function returns are never
\* objects made by the cycle check.
C29_NoStubReturnedWhenSerialized ==
  \A r \in DOMAIN results :
    /\ results[r].type.k = "obj" => ~heap[results[r].type.id].stub
    /\ results[r].raw.k = "obj" => ~heap[results[r].raw.id].stub

\* C29 witness: a record that refers to itself was compiled, a stub was
\* made for it on the way, and a second root call for the same record got
\* the canonical object from the registry.
C29_Witness ==
  /\ Idle
  /\ Len(results) = 2
  /\ results[1].entered /\ ~results[1].err
  /\ \E s \in ObjIds : heap[s].stub /\ KeyOf(heap[s]) = heap[results[1].type.id].name
  /\ ~results[2].entered /\ ~results[2].err
  /\ results[2].type = results[1].type
  /\ ~heap[results[2].type.id].stub

\* ------------------------------------------------------------------- C30
\* C30: the pass of a later root call, which walks the whole registry
\* again, changes no field of an object that was registered, and patched,
\* when the call began: in the step that ends an entered root call, every
\* object the registry held at the start of the call has the fields it had
\* before the step.
C30_LaterPassChangesNothing ==
  [][(Len(stack) = 1 /\ stack' = << >>) =>
       \A i \in Registered(stack[1].before) :
         Fields(heap'[i]) = Fields(heap[i])]_vars

====
